---- MODULE Spec2Model ----
(***************************************************************************)
(* Ingestion-and-windowing pipeline of the DEX arbitrage data worker        *)
(* (apps/worker/run.py, apps/worker/state.py, apps/worker/http_server.py).  *)
(*                                                                         *)
(* Specifications of this module:                                          *)
(*   SpecRun     the worker main loop: ingestion cycles and the            *)
(*               persistence of the checkpoint documents                   *)
(*   Spec        SpecRun with I/O errors of the local disk and with a      *)
(*               crash and restart of the process                          *)
(*   SpecWide    SpecRun with a rolling window two rows larger than the    *)
(*               preview                                                   *)
(*   SpecBurst   the main loop without end against a source holding more   *)
(*               logs inside the lookback than the page budget covers      *)
(*   SpecPrune   apply_rolling_window_pruning on an arbitrary dataset file *)
(*   SpecServe   SpecRun with the HTTP server thread reading preview.json  *)
(*               and metadata.json                                         *)
(*   SpecWindow  the watermark of successive cycles under both windowing   *)
(*               strategies                                                *)
(*   SpecAverage RollingPriceBuffer.get_moving_average on an arbitrary     *)
(*               buffer                                                    *)
(*   SpecSpread  the spread alert of the preview header on arbitrary       *)
(*               buffers of the two pools                                  *)
(*   SpecTracker a DedupeTracker of any capacity under arbitrary calls of  *)
(*               mark_seen and prune                                       *)
(*   SpecBuffer  a RollingPriceBuffer of any capacity under arbitrary      *)
(*               calls of add_price                                        *)
(*   SpecTransform  the direction of a swap event and the cross-pool       *)
(*               deltas of a batch, on arbitrary inputs                    *)
(*   SpecPaging  the page loop of one pool on the logs path and on the     *)
(*               transaction path                                          *)
(***************************************************************************)
EXTENDS Integers, Sequences, FiniteSets, TLC

(***************************************************************************)
(* Bounds of the model                                                     *)
(***************************************************************************)
\* logs the chain emits in all
MaxLogs == 6
\* last value of the wall clock
MaxClock == 4
\* ingestion cycles the main loop starts
MaxCycles == 3
\* crashes and I/O errors in one behaviour
MaxFaults == 1

(***************************************************************************)
(* Program constants, scaled                                               *)
(***************************************************************************)
\* settings.WINDOW_MINUTES * 60, in clock units
LookbackSeconds == 2
\* settings.MAX_PAGES_PER_CYCLE
MAX_PAGES_PER_CYCLE == 2
\* settings.ROLLING_WINDOW_SIZE
ROLLING_WINDOW_SIZE == 3
\* DedupeTracker.max_size
DedupeMaxSize == 5
\* page size of the explorer API
PageSize == 2

Pools == <<"A", "B">>

VARIABLES
    \* ---- environment: wall clock and the chain data source
    clock,          \* int(time.time())
    chain,          \* block timestamps of the logs emitted so far; the log id is the index
    \* ---- process memory of the worker (lost on a crash)
    pc,             \* position of the main loop / run_cycle
    state,          \* WatermarkState dict held by main()
    seen,           \* DedupeTracker.seen
    priceBuf,       \* RollingPriceBuffer.buffers
    previewHashes,  \* PreviewStateTracker.last_preview_hashes
    cyc,            \* locals of run_cycle / fetch_and_process_logs
    \* ---- files
    dataset,        \* dexarb_latest.jsonl
    datasetTmp,     \* dexarb_latest.jsonl.tmp
    windowSize,     \* window_size argument of apply_rolling_window_pruning
    pr,             \* locals of apply_rolling_window_pruning
    metadata,       \* metadata.json
    preview,        \* preview.json
    docTmp,         \* metadata.json.tmp / preview.json.tmp
    stateFile,      \* state/last_block.json
    dedupeFile,     \* state/dedupe.json
    bufFile,        \* state/price_buffer.json
    pvFile,         \* state/preview_state.json
    \* ---- HTTP server thread
    served,         \* last response of handle_preview / handle_metadata
    \* ---- history (observers, not program state)
    hist

vars == <<clock, chain, pc, state, seen, priceBuf, previewHashes, cyc,
          dataset, datasetTmp, windowSize, pr, metadata, preview, docTmp,
          stateFile, dedupeFile, bufFile, pvFile, served, hist>>

(***************************************************************************)
(* Generic helpers                                                         *)
(***************************************************************************)
Max2(a, b) == IF a >= b THEN a ELSE b

RECURSIVE MaxOfSeq(_, _)
\* max(f(x) for x in s, default=d), with the values of s given directly
MaxOfSeq(s, d) ==
    IF s = <<>> THEN d
    ELSE LET m == MaxOfSeq(Tail(s), d) IN IF m >= Head(s) THEN m ELSE Head(s)

RECURSIVE MinOfSeq(_, _)
MinOfSeq(s, d) ==
    IF s = <<>> THEN d
    ELSE IF Tail(s) = <<>> THEN Head(s)
    ELSE LET m == MinOfSeq(Tail(s), d) IN IF m <= Head(s) THEN m ELSE Head(s)

RECURSIVE SelectRows(_, _)
\* [r for r in s if r in keep-set described by the predicate set], kept in order
SelectRows(s, ok) ==
    IF s = <<>> THEN <<>>
    ELSE IF Head(s) \in ok THEN <<Head(s)>> \o SelectRows(Tail(s), ok)
    ELSE SelectRows(Tail(s), ok)

Range(s) == {s[i] : i \in 1..Len(s)}
Prefix(s, n) == SubSeq(s, 1, IF n <= Len(s) THEN n ELSE Len(s))
Suffix(s, n) == SubSeq(s, n + 1, Len(s))

(***************************************************************************)
(* The chain data source.  Log i of the chain is a Swap event: it belongs  *)
(* to a transaction, has a position in it, and was emitted by one pool.    *)
(***************************************************************************)
\* every clock tick one transaction swaps through both pools: logs 2t-1 and 2t
LogTs(i) == (i + 1) \div 2
EmittedBy(t) == [i \in 1..(IF 2 * t <= MaxLogs THEN 2 * t ELSE MaxLogs) |-> LogTs(i)]
TxOf(i) == (i + 1) \div 2
LogIndexOf(i) == i % 2
PoolOf(i) == IF i % 2 = 1 THEN "A" ELSE "B"
\* normalized_price of the row decoded from log i
PriceOf(i) == 100 + i

\* the raw log the explorer returns for log i (timestamp via get_block_info)
RawLog(i) ==
    [tx |-> TxOf(i), li |-> LogIndexOf(i), pool |-> PoolOf(i),
     ts |-> chain[i], blk |-> chain[i], price |-> PriceOf(i)]

RECURSIVE PoolLogsFrom(_, _)
\* the logs of pool p among the first n of the chain, newest first
PoolLogsFrom(p, n) ==
    IF n = 0 THEN <<>>
    ELSE IF PoolOf(n) = p THEN <<RawLog(n)>> \o PoolLogsFrom(p, n - 1)
    ELSE PoolLogsFrom(p, n - 1)

\* client.get_logs(address, cursor): page k (from 1) and whether a next cursor exists
GetLogsPage(p, k) ==
    LET all == PoolLogsFrom(p, Len(chain))
        lo  == (k - 1) * PageSize
    IN [logs |-> SubSeq(all, lo + 1, IF lo + PageSize <= Len(all) THEN lo + PageSize ELSE Len(all)),
        next |-> Len(all) > lo + PageSize]

(***************************************************************************)
(* state.py: DedupeTracker                                                 *)
(***************************************************************************)
\* key = f"{tx_hash}:{log_index}"
DedupeKey(tx, li) == <<tx, li>>

\* DedupeTracker.is_duplicate
IsDuplicate(s, tx, li) == DedupeKey(tx, li) \in s

\* int(self.max_size * 0.2)
EvictCount == (DedupeMaxSize * 2) \div 10

\* list(self.seen)[:n]: the first n keys in the iteration order of a Python
\* set, which is the order of the hash table, not the order of insertion:
\* any n keys of the set.
EvictionChoices(s) == {R \in SUBSET s : Cardinality(R) = EvictCount}

\* DedupeTracker.mark_seen: the sets the tracker may hold after the call
MarkSeen(s, tx, li) ==
    LET s1 == s \cup {DedupeKey(tx, li)}
    IN IF Cardinality(s1) > DedupeMaxSize
       THEN {s1 \ R : R \in EvictionChoices(s1)}
       ELSE {s1}

\* DedupeTracker.prune
DedupePrune(s, keys) == s \ keys

(***************************************************************************)
(* state.py: RollingPriceBuffer                                            *)
(***************************************************************************)
\* RollingPriceBuffer(max_size=20) as constructed by main()
PriceBufMaxSize == 20

EmptyBuffers == [p \in Range(Pools) |-> <<>>]

\* an add_price that cuts the list at its head: the new sample is the one lost
AddPriceKeepingHead(b, pool, price, ts, max_size) ==
    LET l == Append(b[pool], [price |-> price, ts |-> ts])
    IN [b EXCEPT ![pool] = IF Len(l) > max_size THEN SubSeq(l, 1, max_size) ELSE l]

\* RollingPriceBuffer.add_price on a buffer of capacity max_size >= 1
AddPriceWith(b, pool, price, ts, max_size) ==
    LET l == Append(b[pool], [price |-> price, ts |-> ts])
    IN [b EXCEPT ![pool] = IF Len(l) > max_size
                           THEN SubSeq(l, Len(l) - max_size + 1, Len(l))
                           ELSE l]

\* RollingPriceBuffer.add_price on the buffer of the worker
AddPrice(b, pool, price, ts) == AddPriceWith(b, pool, price, ts, PriceBufMaxSize)

RECURSIVE FilterSamples(_, _)
FilterSamples(l, cutoff) ==
    IF l = <<>> THEN <<>>
    ELSE IF Head(l).ts >= cutoff THEN <<Head(l)>> \o FilterSamples(Tail(l), cutoff)
    ELSE FilterSamples(Tail(l), cutoff)

\* a prune with the comparison turned round: keeps what is at or before the cutoff
PruneByTimestampInverted(b, cutoff) ==
    [p \in DOMAIN b |-> SelectSeq(b[p], LAMBDA e : e.ts <= cutoff)]

\* RollingPriceBuffer.prune_by_timestamp
PruneByTimestamp(b, cutoff) == [p \in DOMAIN b |-> FilterSamples(b[p], cutoff)]

RECURSIVE AddPrices(_, _)
\* run_cycle: feed the rows of the batch to the price buffer, in order
AddPrices(b, rows) ==
    IF rows = <<>> THEN b
    ELSE LET r == Head(rows)
         IN AddPrices(IF r.price # 0 /\ r.ts # 0 THEN AddPrice(b, r.pool, r.price, r.ts) ELSE b,
                      Tail(rows))

(***************************************************************************)
(* Dataset file: lines of dexarb_latest.jsonl                              *)
(***************************************************************************)
\* a line that does not parse as JSON (a torn write)
BadLine == [tx |-> 0, li |-> 0, pool |-> "?", ts |-> 0, blk |-> 0, price |-> 0]
IsRow(l) == l.pool # "?"

NoFile == [exists |-> FALSE, lines |-> <<>>, eol |-> TRUE]
FileOf(lines) == [exists |-> TRUE, lines |-> lines, eol |-> TRUE]

RECURSIVE ParsedRows(_)
\* the read loop of apply_rolling_window_pruning / update_preview_with_analytics:
\* malformed lines are skipped
ParsedRows(lines) ==
    IF lines = <<>> THEN <<>>
    ELSE IF IsRow(Head(lines)) THEN <<Head(lines)>> \o ParsedRows(Tail(lines))
    ELSE ParsedRows(Tail(lines))

RowKey(r) == DedupeKey(r.tx, r.li)
RowKeys(rows) == {RowKey(rows[i]) : i \in 1..Len(rows)}

\* f.write(json.dumps(row) + "\n") on a file opened for append: when the file
\* ends inside a torn line the text joins that line
AppendLine(f, r) ==
    IF f.exists /\ ~f.eol
    THEN [f EXCEPT !.eol = TRUE]
    ELSE [exists |-> TRUE, lines |-> Append(f.lines, r), eol |-> TRUE]

\* the file after a crash tears the line being written
TornLine(f) ==
    IF f.exists /\ ~f.eol THEN f
    ELSE [exists |-> TRUE, lines |-> Append(f.lines, BadLine), eol |-> FALSE]

(***************************************************************************)
(* Sorting as list.sort(key=..., reverse=True): stable, descending         *)
(***************************************************************************)
\* key(a) > key(b) for key = (timestamp, block_number) or key = timestamp
KeyGreater(a, b, withBlock) ==
    \/ a.ts > b.ts
    \/ withBlock /\ a.ts = b.ts /\ a.blk > b.blk

RECURSIVE InsertDesc(_, _, _)
\* x goes before the first element that is not greater than x
InsertDesc(x, s, withBlock) ==
    IF s = <<>> THEN <<x>>
    ELSE IF KeyGreater(Head(s), x, withBlock)
         THEN <<Head(s)>> \o InsertDesc(x, Tail(s), withBlock)
         ELSE <<x>> \o s

RECURSIVE SortDesc(_, _)
SortDesc(s, withBlock) ==
    IF s = <<>> THEN <<>>
    ELSE InsertDesc(Head(s), SortDesc(Tail(s), withBlock), withBlock)

(***************************************************************************)
(* run.py: apply_rolling_window_pruning, the pure part                     *)
(***************************************************************************)
\* a sort that leaves out the block_number tiebreaker
PruneSortedByTimestampOnly(rows) == SortDesc(rows, FALSE)

\* rows.sort(key=(timestamp, block_number), reverse=True)
PruneSorted(rows) == SortDesc(rows, TRUE)
\* a slice that keeps one row too many
PruneKeptOneMore(rows, w) == Prefix(PruneSorted(rows), w + 1)

\* kept_rows = rows[:window_size]
PruneKept(rows, w) == Prefix(PruneSorted(rows), w)
\* dropped_rows = rows[window_size:]
PruneDropped(rows, w) == Suffix(PruneSorted(rows), IF w <= Len(rows) THEN w ELSE Len(rows))

RECURSIVE TsOf(_)
TsOf(rows) == IF rows = <<>> THEN <<>> ELSE <<Head(rows).ts>> \o TsOf(Tail(rows))

\* min(timestamp of rows), None (written 0: the caller tests truthiness) when empty
OldestTs(rows) == MinOfSeq(TsOf(rows), 0)

IdlePrune == [kept |-> <<>>, dropped |-> <<>>, before |-> <<>>, oldest_ts |-> 0, total_after |-> 0]

(***************************************************************************)
(* run.py: apply_rolling_window_pruning, step by step                      *)
(*   pc = "prune"          entry                                           *)
(*   pc = "prune_write"    about to open the temp file and write it        *)
(*   pc = "prune_sync"     temp file open, rows being written              *)
(*   pc = "prune_replace"  temp file flushed and fsynced                   *)
(*   pc = "prune_done"     returned                                        *)
(*   pc = "raised"         an exception left the function                  *)
(***************************************************************************)
PruneStart ==
    /\ pc = "prune"
    /\ LET rows == ParsedRows(dataset.lines)
       IN IF ~dataset.exists
          THEN /\ pr' = IdlePrune
               /\ pc' = "prune_done"
          ELSE IF Len(rows) <= windowSize
          THEN /\ pr' = [kept |-> rows, dropped |-> <<>>, before |-> rows,
                         oldest_ts |-> OldestTs(rows), total_after |-> Len(rows)]
               /\ pc' = "prune_done"
          ELSE /\ pr' = [kept |-> PruneKept(rows, windowSize),
                         dropped |-> PruneDropped(rows, windowSize),
                         before |-> rows,
                         oldest_ts |-> OldestTs(PruneKept(rows, windowSize)),
                         total_after |-> Len(PruneKept(rows, windowSize))]
               /\ pc' = "prune_write"
    /\ UNCHANGED <<dataset, datasetTmp, seen>>

\* a rewrite that opens the dataset file itself for writing
PruneOpenInPlace ==
    /\ pc = "prune_write"
    /\ dataset' = FileOf(<<>>)
    /\ pc' = "prune_sync"
    /\ UNCHANGED <<datasetTmp, pr, seen>>

\* open(temp_path, "w"): the temp file exists and is empty
PruneOpenTmp ==
    /\ pc = "prune_write"
    /\ datasetTmp' = FileOf(<<>>)
    /\ pc' = "prune_sync"
    /\ UNCHANGED <<dataset, pr, seen>>

\* the write loop, f.flush(), os.fsync()
PruneWriteTmp ==
    /\ pc = "prune_sync"
    /\ datasetTmp' = FileOf(pr.kept)
    /\ pc' = "prune_replace"
    /\ UNCHANGED <<dataset, pr, seen>>

\* temp_path.replace(file_path), then dedupe_tracker.prune(dropped_keys)
PruneReplace ==
    /\ pc = "prune_replace"
    /\ dataset' = datasetTmp
    /\ datasetTmp' = NoFile
    /\ seen' = DedupePrune(seen, RowKeys(pr.dropped))
    /\ pc' = "prune_done"
    /\ UNCHANGED pr

\* an except clause that re-raises and leaves the temp file behind
PruneFailKeepsTmp ==
    /\ pc \in {"prune_write", "prune_sync", "prune_replace"}
    /\ datasetTmp' = datasetTmp
    /\ pc' = "raised"
    /\ UNCHANGED <<dataset, pr, seen>>

\* except Exception: unlink the temp file when it exists, re-raise
PruneFail ==
    /\ pc \in {"prune_write", "prune_sync", "prune_replace"}
    /\ datasetTmp' = NoFile
    /\ pc' = "raised"
    /\ UNCHANGED <<dataset, pr, seen>>

(***************************************************************************)
(* Documents: metadata.json, preview.json and the checkpoint files.  A     *)
(* file is absent, torn (empty or truncated: it does not parse) or holds   *)
(* a complete document.                                                    *)
(***************************************************************************)
NoDoc == [st |-> "absent", val |-> <<>>]
TornDoc == [st |-> "partial", val |-> <<>>]
DocOf(v) == [st |-> "ok", val |-> v]

(***************************************************************************)
(* state.py: read_state / write_state and the load() class methods         *)
(***************************************************************************)
\* the state dict {}: every state.get(key, 0) of run_cycle gives 0
EmptyState == [last_seen_ts |-> 0, last_seen_block |-> 0, last_preview_ts |-> 0]

\* read_state: {} when the file is missing or does not parse
ReadState(f, empty) == IF f.st = "ok" THEN f.val ELSE empty

\* write_state, first half: open(path, "wb") truncates the live file
WriteStateOpen(f) == TornDoc
\* write_state, second half: dump, flush, fsync
WriteStateDump(f, obj) == DocOf(obj)

(***************************************************************************)
(* run.py: run_cycle                                                       *)
(***************************************************************************)
\* settings.PREVIEW_ROWS
PREVIEW_ROWS == 2
\* PreviewStateTracker(max_size=10) as constructed by main()
PreviewStateMaxSize == 10

IdleCycle ==
    [now |-> 0, wm |-> 0, pool |-> 0, page |-> 0, batch |-> <<>>,
     max_ts |-> 0, max_block |-> 0, early |-> FALSE, i |-> 0, k |-> 0,
     opened |-> FALSE, skipped |-> FALSE, seen0 |-> {}, buf0 |-> EmptyBuffers, latest_ts |-> 0, doc |-> <<>>]

\* a watermark that ignores the persisted one
WatermarkTsLookbackOnly(st, now) == now - LookbackSeconds

\* the watermark of a cycle, timestamp strategy (run_cycle, "Determine
\* windowing strategy and watermark")
WatermarkTs(st, now) ==
    IF st.last_seen_ts = 0
    THEN now - LookbackSeconds
    ELSE Max2(st.last_seen_ts, now - LookbackSeconds)

\* normalize_log_to_swap on a Swap log: the row of the log
NormalizeLog(l) == l

RECURSIVE ProcessLogs(_, _, _, _)
\* the per-log loop of fetch_and_process_logs over one page: the outcomes
\* (tracker, rows, whether the tracker evicted) the loop may end with
ProcessLogs(logs, s, rows, ev) ==
    IF logs = <<>> THEN {[seen |-> s, rows |-> rows, evicted |-> ev]}
    ELSE LET l == Head(logs)
         IN IF IsDuplicate(s, l.tx, l.li)
            THEN ProcessLogs(Tail(logs), s, rows, ev)
            ELSE UNION {ProcessLogs(Tail(logs), s2, Append(rows, NormalizeLog(l)),
                                    ev \/ Cardinality(s2) < Cardinality(s \cup {DedupeKey(l.tx, l.li)}))
                        : s2 \in MarkSeen(s, l.tx, l.li)}

\* leave the page loop of the current pool: next pool, or the end of the fetch
NextPool(c) ==
    IF c.pool < Len(Pools)
    THEN [c EXCEPT !.pool = c.pool + 1, !.page = 0]
    ELSE [c EXCEPT !.pool = 0, !.page = 0]

PcAfterFetch(c) == IF c.pool = 0 THEN "post" ELSE "fetch"

\* a skipped cycle that moves the watermark to the wall clock
GetLatestBlockFailAdvancing ==
    /\ pc = "sleep"
    /\ hist.cycles < MaxCycles
    /\ hist' = [hist EXCEPT !.cycles = hist.cycles + 1]
    /\ cyc' = [IdleCycle EXCEPT !.skipped = TRUE, !.k = 1]
    /\ state' = [state EXCEPT !.last_seen_ts = clock]
    /\ pc' = "save_open"
    /\ UNCHANGED <<clock, chain, seen, priceBuf, previewHashes, dataset, datasetTmp,
                   windowSize, pr, metadata, preview, docTmp, stateFile, dedupeFile,
                   bufFile, pvFile, served>>

\* client.get_latest_block() raises: "Skipping this cycle", return state
GetLatestBlockFail ==
    /\ pc = "sleep"
    /\ hist.cycles < MaxCycles
    /\ hist' = [hist EXCEPT !.cycles = hist.cycles + 1]
    /\ cyc' = [IdleCycle EXCEPT !.skipped = TRUE, !.k = 1]
    /\ pc' = "save_open"
    /\ UNCHANGED <<clock, chain, state, seen, priceBuf, previewHashes, dataset, datasetTmp,
                   windowSize, pr, metadata, preview, docTmp, stateFile, dedupeFile,
                   bufFile, pvFile, served>>

\* client.get_latest_block() answers: the watermark is computed
GetLatestBlockOk ==
    /\ pc = "sleep"
    /\ hist.cycles < MaxCycles
    /\ hist' = [hist EXCEPT !.cycles = hist.cycles + 1]
    /\ cyc' = [IdleCycle EXCEPT !.now = clock, !.wm = WatermarkTs(state, clock),
                                !.pool = 1, !.seen0 = seen, !.buf0 = priceBuf]
    /\ pc' = "fetch"
    /\ UNCHANGED <<clock, chain, state, seen, priceBuf, previewHashes, dataset, datasetTmp,
                   windowSize, pr, metadata, preview, docTmp, stateFile, dedupeFile,
                   bufFile, pvFile, served>>

\* a fetch error that ends the loop over the pools, not only the page loop
FetchPageErrorEndsFetch ==
    /\ pc = "fetch"
    /\ cyc' = [cyc EXCEPT !.pool = 0, !.page = 0]
    /\ pc' = "post"
    /\ UNCHANGED <<clock, chain, state, seen, priceBuf, previewHashes, dataset, datasetTmp,
                   windowSize, pr, metadata, preview, docTmp, stateFile, dedupeFile,
                   bufFile, pvFile, served, hist>>

\* fetch_and_process_logs: client.get_logs raises, the pool's loop breaks
FetchPageError ==
    /\ pc = "fetch"
    /\ cyc' = NextPool(cyc)
    /\ pc' = PcAfterFetch(cyc')
    /\ UNCHANGED <<clock, chain, state, seen, priceBuf, previewHashes, dataset, datasetTmp,
                   windowSize, pr, metadata, preview, docTmp, stateFile, dedupeFile,
                   bufFile, pvFile, served, hist>>

\* an early-stop test that misses a page whose oldest log is at the watermark
EarlyStopBelow(wm, tss) == wm > 0 /\ MinOfSeq(tss, 0) < wm

\* fetch_and_process_logs, "NOW check early-stop AFTER processing the current
\* page", early_stop_mode "timestamp": tss are the timestamps of the page
EarlyStop(wm, tss) == wm > 0 /\ MinOfSeq(tss, 0) <= wm

\* fetch_and_process_logs: one iteration of the page loop with a page returned
FetchPageOk ==
    /\ pc = "fetch"
    /\ LET pg  == GetLogsPage(Pools[cyc.pool], cyc.page + 1)
           c1  == [cyc EXCEPT !.page = cyc.page + 1]
       IN IF pg.logs = <<>>
          THEN /\ cyc' = NextPool(c1)
               /\ UNCHANGED <<seen, hist>>
          ELSE \E out \in ProcessLogs(pg.logs, seen, cyc.batch, FALSE) :
                 LET tss  == TsOf(pg.logs)
                     c2   == [c1 EXCEPT !.batch = out.rows,
                                        !.max_ts = Max2(cyc.max_ts, MaxOfSeq(tss, 0)),
                                        !.max_block = Max2(cyc.max_block, MaxOfSeq(tss, 0))]
                     stop == EarlyStop(cyc.wm, tss)
                     new  == RowKeys(SubSeq(out.rows, Len(cyc.batch) + 1, Len(out.rows)))
                 IN /\ seen' = out.seen
                    /\ hist' = [hist EXCEPT !.evicted = hist.evicted \/ out.evicted,
                                            !.accepted = hist.accepted \cup new,
                                            !.again = \/ hist.again
                                                      \/ new \cap hist.accepted # {}
                                                      \/ Cardinality(new) < Len(out.rows) - Len(cyc.batch)]
                    /\ cyc' = IF stop THEN NextPool([c2 EXCEPT !.early = TRUE])
                              ELSE IF ~pg.next THEN NextPool(c2)
                              ELSE IF c2.page >= MAX_PAGES_PER_CYCLE THEN NextPool(c2)
                              ELSE c2
    /\ pc' = PcAfterFetch(cyc')
    /\ UNCHANGED <<clock, chain, state, priceBuf, previewHashes, dataset, datasetTmp,
                   windowSize, pr, metadata, preview, docTmp, stateFile, dedupeFile,
                   bufFile, pvFile, served>>

\* run_cycle: "Update rolling price buffer with new rows"
PostFetch ==
    /\ pc = "post"
    /\ priceBuf' = AddPrices(priceBuf, cyc.batch)
    /\ pc' = IF cyc.batch # <<>> THEN "append" ELSE "prune"
    /\ UNCHANGED <<clock, chain, state, seen, previewHashes, cyc, dataset, datasetTmp,
                   windowSize, pr, metadata, preview, docTmp, stateFile, dedupeFile,
                   bufFile, pvFile, served, hist>>

\* run_cycle: "Append to JSONL with fsync": the next row of the batch reaches
\* the file opened with mode "a"; after the last one flush and fsync
AppendRow ==
    /\ pc = "append"
    /\ dataset' = AppendLine(dataset, cyc.batch[cyc.i + 1])
    /\ cyc' = [cyc EXCEPT !.i = cyc.i + 1]
    /\ pc' = IF cyc.i + 1 = Len(cyc.batch) THEN "prune" ELSE "append"
    /\ UNCHANGED <<clock, chain, state, seen, priceBuf, previewHashes, datasetTmp,
                   windowSize, pr, metadata, preview, docTmp, stateFile, dedupeFile,
                   bufFile, pvFile, served, hist>>

\* run_cycle: open(jsonl_path, "a") or a write raises (OSError)
AppendFail ==
    /\ pc = "append"
    /\ hist.faults < MaxFaults
    /\ hist' = [hist EXCEPT !.faults = hist.faults + 1]
    /\ pc' = "raised"
    /\ UNCHANGED <<clock, chain, state, seen, priceBuf, previewHashes, cyc, dataset, datasetTmp,
                   windowSize, pr, metadata, preview, docTmp, stateFile, dedupeFile,
                   bufFile, pvFile, served>>

(***************************************************************************)
(* run.py: update_metadata and update_preview_with_analytics               *)
(***************************************************************************)
NoTmp == [metadata |-> NoDoc, preview |-> NoDoc]

\* the metadata dict of update_metadata
MetadataDoc(row_count, now) == [rows |-> row_count, last_updated |-> now]

RECURSIVE TxOfRows(_)
TxOfRows(rows) == IF rows = <<>> THEN <<>> ELSE <<Head(rows).tx>> \o TxOfRows(Tail(rows))

RECURSIVE NewRows(_, _)
\* [r for r in rows if preview_state.is_new(r["tx_hash"])]
NewRows(rows, hashes) ==
    IF rows = <<>> THEN <<>>
    ELSE IF Head(rows).tx \notin hashes THEN <<Head(rows)>> \o NewRows(Tail(rows), hashes)
    ELSE NewRows(Tail(rows), hashes)

\* the rows selected for a preview of preview_rows rows: sorted newest
\* first, biased to new hashes
PreviewSelectWith(rows, hashes, preview_rows) ==
    LET sorted == SortDesc(rows, FALSE)
        new    == NewRows(sorted, hashes)
    IN IF Len(new) >= 2
       THEN Prefix(new, preview_rows)
       ELSE Prefix(new \o SelectRows(sorted, Range(sorted) \ Range(new)), preview_rows)

\* the selection of run_cycle, which passes settings.PREVIEW_ROWS
PreviewSelect(rows, hashes) == PreviewSelectWith(rows, hashes, PREVIEW_ROWS)

\* PreviewStateTracker.update: set(tx_hashes[-max_size:])
PreviewStateUpdate(txs) ==
    Range(SubSeq(txs, IF Len(txs) > PreviewStateMaxSize THEN Len(txs) - PreviewStateMaxSize + 1 ELSE 1,
                 Len(txs)))

\* the preview dict and latest_ts of update_preview_with_analytics
PreviewDoc(f, hashes, now) ==
    IF ~f.exists
    THEN [preview_rows |-> <<>>, total_rows |-> 0, updated_ago_seconds |-> 0, latest_ts |-> 0]
    ELSE LET rows == ParsedRows(f.lines)
             sel  == PreviewSelect(rows, hashes)
             lts  == MaxOfSeq(TsOf(sel), 0)
         IN [preview_rows |-> sel, total_rows |-> Len(rows),
             updated_ago_seconds |-> IF lts > 0 THEN now - lts ELSE 0,
             latest_ts |-> lts]

\* run_cycle: "Prune price buffer to match rolling window"
PricePrune ==
    /\ pc = "prune_done"
    /\ priceBuf' = IF pr.oldest_ts # 0 THEN PruneByTimestamp(priceBuf, pr.oldest_ts) ELSE priceBuf
    /\ pc' = "meta_tmp"
    /\ UNCHANGED <<metadata, preview, docTmp, previewHashes, state, cyc>>

\* update_metadata: open(temp_path, "w") and the writes before the fsync
MetaWriteTmp ==
    /\ pc = "meta_tmp"
    /\ docTmp' = [docTmp EXCEPT !.metadata = TornDoc]
    /\ pc' = "meta_sync"
    /\ UNCHANGED <<metadata, preview, priceBuf, previewHashes, state, cyc>>

\* update_metadata: flush, fsync, temp_path.replace(metadata_path)
MetaReplace ==
    /\ pc = "meta_sync"
    /\ metadata' = DocOf(MetadataDoc(pr.total_after, cyc.now))
    /\ docTmp' = [docTmp EXCEPT !.metadata = NoDoc]
    /\ pc' = "preview_tmp"
    /\ UNCHANGED <<preview, priceBuf, previewHashes, state, cyc>>

\* a preview written by opening preview.json itself
PreviewWriteInPlace ==
    /\ pc = "preview_tmp"
    /\ LET doc == PreviewDoc(dataset, previewHashes, cyc.now)
       IN /\ previewHashes' = IF dataset.exists
                              THEN PreviewStateUpdate(TxOfRows(doc.preview_rows))
                              ELSE previewHashes
          /\ cyc' = [cyc EXCEPT !.latest_ts = doc.latest_ts, !.doc = doc]
    /\ preview' = TornDoc
    /\ pc' = "preview_sync"
    /\ UNCHANGED <<metadata, docTmp, priceBuf, state>>

\* update_preview_with_analytics: rows selected, preview_state.update, then
\* open(temp_path, "w") and the writes before the fsync
PreviewWriteTmp ==
    /\ pc = "preview_tmp"
    /\ LET doc == PreviewDoc(dataset, previewHashes, cyc.now)
       IN /\ previewHashes' = IF dataset.exists
                              THEN PreviewStateUpdate(TxOfRows(doc.preview_rows))
                              ELSE previewHashes
          /\ cyc' = [cyc EXCEPT !.latest_ts = doc.latest_ts, !.doc = doc]
    /\ docTmp' = [docTmp EXCEPT !.preview = TornDoc]
    /\ pc' = "preview_sync"
    /\ UNCHANGED <<metadata, preview, priceBuf, state>>

\* a new state taken from the cycle alone, without the state it replaces
NewStateOfCycleOnly(st, c) ==
    [last_seen_ts    |-> Max2(c.max_ts, c.latest_ts),
     last_seen_block |-> c.max_block,
     last_preview_ts |-> c.latest_ts]

\* the new_state dict of run_cycle
NewState(st, c) ==
    [last_seen_ts    |-> Max2(Max2(st.last_seen_ts, c.max_ts), Max2(c.latest_ts, c.now)),
     last_seen_block |-> Max2(Max2(st.last_seen_block, c.max_block), c.now),
     last_preview_ts |-> c.latest_ts]

\* update_preview_with_analytics: flush, fsync, temp_path.replace(preview_path);
\* run_cycle then returns new_state to main()
PreviewReplace ==
    /\ pc = "preview_sync"
    /\ preview' = DocOf(cyc.doc)
    /\ docTmp' = [docTmp EXCEPT !.preview = NoDoc]
    /\ state' = NewState(state, cyc)
    /\ cyc' = [cyc EXCEPT !.k = 1]
    /\ pc' = "save_open"
    /\ UNCHANGED <<metadata, priceBuf, previewHashes>>

\* update_metadata / update_preview_with_analytics: except Exception: unlink
\* the temp file when it exists, re-raise
PublishFail ==
    /\ pc \in {"meta_tmp", "meta_sync", "preview_sync"}
    /\ docTmp' = IF pc = "preview_sync" THEN [docTmp EXCEPT !.preview = NoDoc]
                 ELSE [docTmp EXCEPT !.metadata = NoDoc]
    /\ pc' = "raised"
    /\ UNCHANGED <<metadata, preview, priceBuf, previewHashes, state, cyc>>

(***************************************************************************)
(* run.py: main(), the persistence of the four checkpoint documents        *)
(*   k = 1 write_state(LAST_BLOCK_STATE_PATH, state)   k = 2 dedupe.save   *)
(*   k = 3 price_buffer.save                           k = 4 preview_state.save *)
(***************************************************************************)
SaveOpen ==
    /\ pc = "save_open"
    /\ stateFile'  = IF cyc.k = 1 THEN WriteStateOpen(stateFile) ELSE stateFile
    /\ dedupeFile' = IF cyc.k = 2 THEN WriteStateOpen(dedupeFile) ELSE dedupeFile
    /\ bufFile'    = IF cyc.k = 3 THEN WriteStateOpen(bufFile) ELSE bufFile
    /\ pvFile'     = IF cyc.k = 4 THEN WriteStateOpen(pvFile) ELSE pvFile
    /\ pc' = "save_dump"
    /\ UNCHANGED <<clock, chain, state, seen, priceBuf, previewHashes, cyc, dataset, datasetTmp,
                   windowSize, pr, metadata, preview, docTmp, served, hist>>

SaveDump ==
    /\ pc = "save_dump"
    /\ stateFile'  = IF cyc.k = 1 THEN WriteStateDump(stateFile, state) ELSE stateFile
    /\ dedupeFile' = IF cyc.k = 2 THEN WriteStateDump(dedupeFile, seen) ELSE dedupeFile
    /\ bufFile'    = IF cyc.k = 3 THEN WriteStateDump(bufFile, priceBuf) ELSE bufFile
    /\ pvFile'     = IF cyc.k = 4 THEN WriteStateDump(pvFile, previewHashes) ELSE pvFile
    /\ IF cyc.k = 4
       THEN /\ pc' = "sleep"
            /\ cyc' = IdleCycle
            /\ pr' = IdlePrune
       ELSE /\ pc' = "save_open"
            /\ cyc' = [cyc EXCEPT !.k = cyc.k + 1]
            /\ pr' = pr
    /\ UNCHANGED <<clock, chain, state, seen, priceBuf, previewHashes, dataset, datasetTmp,
                   windowSize, metadata, preview, docTmp, served, hist>>

\* main(): except Exception: "Error in worker cycle", then sleep
CycleError ==
    /\ pc = "raised"
    /\ pc' = "sleep"
    /\ cyc' = IdleCycle
    /\ pr' = IdlePrune
    /\ UNCHANGED <<clock, chain, state, seen, priceBuf, previewHashes, dataset, datasetTmp,
                   windowSize, metadata, preview, docTmp, stateFile, dedupeFile,
                   bufFile, pvFile, served, hist>>

(***************************************************************************)
(* Process crash and restart: the memory is rebuilt by main() from the     *)
(* checkpoint files (read_state, DedupeTracker.load, RollingPriceBuffer    *)
(* .load, PreviewStateTracker.load); the files stay as the crash left them.*)
(***************************************************************************)
\* the crash falls after the batch was appended and before write_state begins
AfterAppendBeforeCheckpoint ==
    /\ cyc.batch # <<>>
    /\ \/ pc \in {"prune", "prune_write", "prune_sync", "prune_replace", "prune_done",
                  "meta_tmp", "meta_sync", "preview_tmp", "preview_sync"}
       \/ pc = "save_open" /\ cyc.k = 1

Crash ==
    /\ hist.faults < MaxFaults
    /\ pc # "sleep"
    /\ dataset' \in (IF pc = "append" THEN {dataset, TornLine(dataset)} ELSE {dataset})
    /\ state' = ReadState(stateFile, EmptyState)
    /\ seen' = ReadState(dedupeFile, {})
    /\ priceBuf' = ReadState(bufFile, EmptyBuffers)
    /\ previewHashes' = ReadState(pvFile, {})
    /\ pc' = "sleep"
    /\ cyc' = IdleCycle
    /\ pr' = IdlePrune
    /\ hist' = [hist EXCEPT !.faults = hist.faults + 1,
                            !.crashed = TRUE,
                            !.mid = hist.mid \/ AfterAppendBeforeCheckpoint]
    /\ UNCHANGED <<clock, chain, datasetTmp, windowSize, metadata, preview, docTmp,
                   stateFile, dedupeFile, bufFile, pvFile, served>>

(***************************************************************************)
(* Environment: time passes and the pools emit Swap logs while the worker  *)
(* sleeps between two cycles.                                              *)
(***************************************************************************)
Tick ==
    /\ pc = "sleep"
    /\ clock < MaxClock
    /\ clock' = clock + 1
    /\ chain' = EmittedBy(clock + 1)
    /\ UNCHANGED <<pc, state, seen, priceBuf, previewHashes, cyc, dataset, datasetTmp,
                   windowSize, pr, metadata, preview, docTmp, stateFile, dedupeFile,
                   bufFile, pvFile, served, hist>>

(***************************************************************************)
(* Spec: the worker main loop                                              *)
(***************************************************************************)
NoHist == [cycles |-> 0, faults |-> 0, crashed |-> FALSE, evicted |-> FALSE, mid |-> FALSE,
           file0 |-> NoFile, at |-> "", accepted |-> {}, again |-> FALSE]

\* no request was served yet
NoResponse == [path |-> "", status |-> 0, body |-> <<>>, rewriting |-> FALSE]

Init ==
    /\ clock = LookbackSeconds
    /\ chain = EmittedBy(LookbackSeconds)
    /\ pc = "sleep"
    /\ state = EmptyState
    /\ seen = {}
    /\ priceBuf = EmptyBuffers
    /\ previewHashes = {}
    /\ cyc = IdleCycle
    /\ dataset = NoFile
    /\ datasetTmp = NoFile
    /\ windowSize = ROLLING_WINDOW_SIZE
    /\ pr = IdlePrune
    /\ metadata = NoDoc
    /\ preview = NoDoc
    /\ docTmp = NoTmp
    /\ stateFile = NoDoc
    /\ dedupeFile = NoDoc
    /\ bufFile = NoDoc
    /\ pvFile = NoDoc
    /\ served = NoResponse
    /\ hist = NoHist

\* what a step of apply_rolling_window_pruning leaves alone inside run_cycle
PruneFrame ==
    UNCHANGED <<clock, chain, state, priceBuf, previewHashes, cyc, windowSize,
                metadata, preview, docTmp, stateFile, dedupeFile, bufFile, pvFile, served>>

\* what a publication step leaves alone inside run_cycle
PublishFrame ==
    UNCHANGED <<clock, chain, seen, dataset, datasetTmp, windowSize, pr,
                stateFile, dedupeFile, bufFile, pvFile, served>>

\* an I/O error is counted
Fault ==
    /\ hist.faults < MaxFaults
    /\ hist' = [hist EXCEPT !.faults = hist.faults + 1]

\* the main loop when the process survives and the local disk works
NextRun ==
    \/ Tick
    \/ GetLatestBlockFail
    \/ GetLatestBlockOk
    \/ FetchPageError
    \/ FetchPageOk
    \/ PostFetch
    \/ AppendRow
    \/ PruneStart /\ PruneFrame /\ UNCHANGED hist
    \/ PruneOpenTmp /\ PruneFrame /\ UNCHANGED hist
    \/ PruneWriteTmp /\ PruneFrame /\ UNCHANGED hist
    \/ PruneReplace /\ PruneFrame /\ UNCHANGED hist
    \/ PricePrune /\ PublishFrame /\ UNCHANGED hist
    \/ MetaWriteTmp /\ PublishFrame /\ UNCHANGED hist
    \/ MetaReplace /\ PublishFrame /\ UNCHANGED hist
    \/ PreviewWriteTmp /\ PublishFrame /\ UNCHANGED hist
    \/ PreviewReplace /\ PublishFrame /\ UNCHANGED hist
    \/ SaveOpen
    \/ SaveDump

SpecRun == Init /\ [][NextRun]_vars

\* a window that holds two rows more than the preview shows (the defaults
\* are 1000 rows against 8)
WideWindow == PREVIEW_ROWS + 2

\* first start of a worker configured with the wide window
InitWide ==
    /\ clock = LookbackSeconds
    /\ chain = EmittedBy(LookbackSeconds)
    /\ pc = "sleep"
    /\ state = EmptyState
    /\ seen = {}
    /\ priceBuf = EmptyBuffers
    /\ previewHashes = {}
    /\ cyc = IdleCycle
    /\ dataset = NoFile
    /\ datasetTmp = NoFile
    /\ windowSize = WideWindow
    /\ pr = IdlePrune
    /\ metadata = NoDoc
    /\ preview = NoDoc
    /\ docTmp = NoTmp
    /\ stateFile = NoDoc
    /\ dedupeFile = NoDoc
    /\ bufFile = NoDoc
    /\ pvFile = NoDoc
    /\ served = NoResponse
    /\ hist = NoHist

\* the main loop of SpecRun with the wide window
SpecWide == InitWide /\ [][NextRun]_vars

\* the main loop with I/O errors of the local disk and a crash of the process
Next ==
    \/ NextRun
    \/ AppendFail
    \/ PruneFail /\ PruneFrame /\ Fault
    \/ PublishFail /\ PublishFrame /\ Fault
    \/ CycleError
    \/ Crash

Spec == Init /\ [][Next]_vars

(***************************************************************************)
(* SpecBurst: the main loop, cycle after cycle without end, against a       *)
(* source that answers every request and holds, for each pool, one log     *)
(* more than the page budget of a cycle covers, all inside the lookback    *)
(***************************************************************************)
\* logs of the burst: MAX_PAGES_PER_CYCLE full pages and one more log per pool
BurstLogs == Len(Pools) * (MAX_PAGES_PER_CYCLE * PageSize + 1)

InitBurst ==
    /\ clock = LookbackSeconds
    /\ chain = [i \in 1..BurstLogs |-> LookbackSeconds]
    /\ pc = "sleep"
    /\ state = EmptyState
    /\ seen = {}
    /\ priceBuf = EmptyBuffers
    /\ previewHashes = {}
    /\ cyc = IdleCycle
    /\ dataset = NoFile
    /\ datasetTmp = NoFile
    /\ windowSize = ROLLING_WINDOW_SIZE
    /\ pr = IdlePrune
    /\ metadata = NoDoc
    /\ preview = NoDoc
    /\ docTmp = NoTmp
    /\ stateFile = NoDoc
    /\ dedupeFile = NoDoc
    /\ bufFile = NoDoc
    /\ pvFile = NoDoc
    /\ served = NoResponse
    /\ hist = NoHist

\* run_cycle begins and client.get_latest_block() answers (any number of times)
BeginCycle ==
    /\ pc = "sleep"
    /\ cyc' = [IdleCycle EXCEPT !.now = clock, !.wm = WatermarkTs(state, clock),
                                !.pool = 1, !.seen0 = seen, !.buf0 = priceBuf]
    /\ pc' = "fetch"
    /\ UNCHANGED <<clock, chain, state, seen, priceBuf, previewHashes, dataset, datasetTmp,
                   windowSize, pr, metadata, preview, docTmp, stateFile, dedupeFile,
                   bufFile, pvFile, served, hist>>

NextBurst ==
    \/ BeginCycle
    \/ FetchPageOk
    \/ PostFetch
    \/ AppendRow
    \/ PruneStart /\ PruneFrame /\ UNCHANGED hist
    \/ PruneOpenTmp /\ PruneFrame /\ UNCHANGED hist
    \/ PruneWriteTmp /\ PruneFrame /\ UNCHANGED hist
    \/ PruneReplace /\ PruneFrame /\ UNCHANGED hist
    \/ PricePrune /\ PublishFrame /\ UNCHANGED hist
    \/ MetaWriteTmp /\ PublishFrame /\ UNCHANGED hist
    \/ MetaReplace /\ PublishFrame /\ UNCHANGED hist
    \/ PreviewWriteTmp /\ PublishFrame /\ UNCHANGED hist
    \/ PreviewReplace /\ PublishFrame /\ UNCHANGED hist
    \/ SaveOpen
    \/ SaveDump

\* the main loop never stops: time.sleep returns, the next cycle runs, and
\* every statement of a cycle completes.  PruneStart and PreviewWriteTmp are
\* enabled exactly at their position and leave it, so their weak fairness is
\* stated as: the loop is not at that position for ever.
BurstFairness ==
    /\ WF_vars(BeginCycle)
    /\ WF_vars(FetchPageOk)
    /\ WF_vars(PostFetch)
    /\ WF_vars(AppendRow)
    /\ []<>(pc # "prune")
    /\ WF_vars(PruneOpenTmp /\ PruneFrame /\ UNCHANGED hist)
    /\ WF_vars(PruneWriteTmp /\ PruneFrame /\ UNCHANGED hist)
    /\ WF_vars(PruneReplace /\ PruneFrame /\ UNCHANGED hist)
    /\ WF_vars(PricePrune /\ PublishFrame /\ UNCHANGED hist)
    /\ WF_vars(MetaWriteTmp /\ PublishFrame /\ UNCHANGED hist)
    /\ WF_vars(MetaReplace /\ PublishFrame /\ UNCHANGED hist)
    /\ []<>(pc # "preview_tmp")
    /\ WF_vars(PreviewReplace /\ PublishFrame /\ UNCHANGED hist)
    /\ WF_vars(SaveOpen)
    /\ WF_vars(SaveDump)

SpecBurst == InitBurst /\ [][NextBurst]_vars /\ BurstFairness

(***************************************************************************)
(* SpecPrune: one call of apply_rolling_window_pruning(file, window_size,   *)
(* dedupe_tracker) on an arbitrary dataset file, with an I/O error or a    *)
(* crash of the process at any point of the call                           *)
(***************************************************************************)
\* lines of the input file
MaxLines == 4
\* largest window_size argument
MaxWindow == 3
\* largest timestamp and block number of an input row
MaxStamp == 2

SeqsUpTo(S, n) == UNION {[1..k -> S] : k \in 0..n}

PruneRow(ts, blk) ==
    [tx |-> ts * (MaxStamp + 1) + blk, li |-> 0, pool |-> "A", ts |-> ts, blk |-> blk, price |-> 100]

PruneLines == {BadLine} \cup {PruneRow(ts, blk) : ts \in 1..MaxStamp, blk \in 1..MaxStamp}

PruneInputs == {NoFile} \cup {FileOf(l) : l \in SeqsUpTo(PruneLines, MaxLines)}

InitPrune ==
    /\ clock = LookbackSeconds
    /\ chain = EmittedBy(LookbackSeconds)
    /\ pc = "prune"
    /\ state = EmptyState
    /\ dataset \in PruneInputs
    /\ seen = RowKeys(ParsedRows(dataset.lines))
    /\ priceBuf = EmptyBuffers
    /\ previewHashes = {}
    /\ cyc = IdleCycle
    /\ datasetTmp = NoFile
    /\ windowSize \in 0..MaxWindow
    /\ pr = IdlePrune
    /\ metadata = NoDoc
    /\ preview = NoDoc
    /\ docTmp = NoTmp
    /\ stateFile = NoDoc
    /\ dedupeFile = NoDoc
    /\ bufFile = NoDoc
    /\ pvFile = NoDoc
    /\ served = NoResponse
    /\ hist = [NoHist EXCEPT !.file0 = dataset]

\* the process dies inside or right after the call; the files stay as they are
PruneCrash ==
    /\ pc \in {"prune", "prune_write", "prune_sync", "prune_replace", "prune_done"}
    /\ pc' = "crashed"
    /\ hist' = [hist EXCEPT !.at = pc, !.crashed = TRUE]
    /\ UNCHANGED <<dataset, datasetTmp, pr, seen>>

NextPrune ==
    \/ PruneStart /\ PruneFrame /\ UNCHANGED hist
    \/ PruneOpenTmp /\ PruneFrame /\ UNCHANGED hist
    \/ PruneWriteTmp /\ PruneFrame /\ UNCHANGED hist
    \/ PruneReplace /\ PruneFrame /\ UNCHANGED hist
    \/ PruneFail /\ PruneFrame /\ Fault
    \/ PruneCrash /\ PruneFrame

SpecPrune == InitPrune /\ [][NextPrune]_vars

(***************************************************************************)
(* SpecServe: the HTTP server thread (http_server.py) reads preview.json   *)
(* and metadata.json while the main loop rewrites them                     *)
(***************************************************************************)
\* exists() / open() / json.load() of a handler, and its response
ServeFile(path, doc, tmp) ==
    [path      |-> path,
     status    |-> IF doc.st = "absent" THEN 404 ELSE IF doc.st = "ok" THEN 200 ELSE 500,
     body      |-> IF doc.st = "ok" THEN doc.val ELSE <<>>,
     rewriting |-> tmp.st # "absent"]

HandlePreview ==
    /\ served' = ServeFile("/preview", preview, docTmp.preview)
    /\ UNCHANGED <<clock, chain, pc, state, seen, priceBuf, previewHashes, cyc, dataset,
                   datasetTmp, windowSize, pr, metadata, preview, docTmp, stateFile,
                   dedupeFile, bufFile, pvFile, hist>>

HandleMetadata ==
    /\ served' = ServeFile("/metadata", metadata, docTmp.metadata)
    /\ UNCHANGED <<clock, chain, pc, state, seen, priceBuf, previewHashes, cyc, dataset,
                   datasetTmp, windowSize, pr, metadata, preview, docTmp, stateFile,
                   dedupeFile, bufFile, pvFile, hist>>

NextServe ==
    \/ NextRun
    \/ HandlePreview
    \/ HandleMetadata

SpecServe == Init /\ [][NextServe]_vars

(***************************************************************************)
(* SpecWindow: the watermark of run_cycle over successive cycles, under    *)
(* both windowing strategies and every early-stop setting.  Only the       *)
(* clock, the chain head, the persisted state and the locals of the cycle  *)
(* move; cyc holds the settings and the locals:                            *)
(*   pc = "wm_start"  the latest block is known, the watermark is not      *)
(*   pc = "wm_fetch"  the watermark is computed, pagination runs           *)
(*   pc = "wm_sleep"  the new state is returned, main() sleeps             *)
(***************************************************************************)
MaxNow == 5
MaxBlock == 5

\* settings.BLOCK_LOOKBACK, scaled
BLOCK_LOOKBACK == 2

\* settings.WINDOW_STRATEGY
WindowStrategies == {"timestamp", "block"}

\* settings.EARLY_STOP_MODE; "" is None
EarlyStopModes == {"", "timestamp", "block"}

\* run_cycle: watermark_block of the block strategy
WatermarkBlock(st, latest) ==
    IF st.last_seen_block = 0
    THEN Max2(0, latest - BLOCK_LOOKBACK)
    ELSE Max2(st.last_seen_block, latest - BLOCK_LOOKBACK)

\* run_cycle: early_stop_mode = settings.EARLY_STOP_MODE or settings.WINDOW_STRATEGY
EarlyStopModeOf(c) ==
    IF c.EARLY_STOP_MODE = "" THEN c.WINDOW_STRATEGY ELSE c.EARLY_STOP_MODE

\* run_cycle: the state returned by a cycle that saw logs up to max_ts /
\* max_block and published a preview whose newest row is at latest_ts
WindowNewState(st, c, now, max_ts, max_block, latest_ts) ==
    [last_seen_ts    |-> Max2(Max2(st.last_seen_ts, max_ts), Max2(latest_ts, now)),
     last_seen_block |-> Max2(Max2(st.last_seen_block, max_block), c.to_block),
     last_preview_ts |-> latest_ts]

WindowCycle(strategy, mode, latest) ==
    [WINDOW_STRATEGY |-> strategy, EARLY_STOP_MODE |-> mode, latest_block |-> latest,
     early_stop_mode |-> "", watermark_ts |-> 0, watermark_block |-> 0, to_block |-> 0]

WindowFrame ==
    UNCHANGED <<chain, seen, priceBuf, previewHashes, dataset, datasetTmp, windowSize, pr,
                metadata, preview, docTmp, stateFile, dedupeFile, bufFile, pvFile,
                served, hist>>

\* first cycle of a worker without checkpoint files; the wall clock is past
\* the lookback and the chain is longer than the block lookback
InitWindow ==
    /\ clock \in LookbackSeconds..MaxNow
    /\ chain = <<>>
    /\ pc = "wm_start"
    /\ state = EmptyState
    /\ seen = {}
    /\ priceBuf = EmptyBuffers
    /\ previewHashes = {}
    /\ cyc \in {WindowCycle(s, m, b) : s \in WindowStrategies, m \in EarlyStopModes,
                                       b \in BLOCK_LOOKBACK..MaxBlock}
    /\ dataset = NoFile
    /\ datasetTmp = NoFile
    /\ windowSize = ROLLING_WINDOW_SIZE
    /\ pr = IdlePrune
    /\ metadata = NoDoc
    /\ preview = NoDoc
    /\ docTmp = NoTmp
    /\ stateFile = NoDoc
    /\ dedupeFile = NoDoc
    /\ bufFile = NoDoc
    /\ pvFile = NoDoc
    /\ served = NoResponse
    /\ hist = NoHist

\* run_cycle: "Determine windowing strategy and watermark"
WatermarkCompute ==
    /\ pc = "wm_start"
    /\ cyc' = [cyc EXCEPT
                 !.early_stop_mode = EarlyStopModeOf(cyc),
                 !.watermark_ts = IF cyc.WINDOW_STRATEGY = "timestamp"
                                  THEN WatermarkTs(state, clock) ELSE 0,
                 !.watermark_block = IF cyc.WINDOW_STRATEGY = "timestamp"
                                     THEN 0 ELSE WatermarkBlock(state, cyc.latest_block),
                 !.to_block = cyc.latest_block]
    /\ pc' = "wm_fetch"
    /\ UNCHANGED <<clock, state>>
    /\ WindowFrame

\* run_cycle: "Update state with new watermarks"; main() keeps the state
WatermarkPersist ==
    /\ pc = "wm_fetch"
    /\ \E max_ts \in 0..clock, max_block \in 0..cyc.latest_block, latest_ts \in {0, clock} :
          state' = WindowNewState(state, cyc, clock, max_ts, max_block, latest_ts)
    /\ pc' = "wm_sleep"
    /\ UNCHANGED <<clock, cyc>>
    /\ WindowFrame

\* main(): sleep; time passes and the chain grows before the next cycle
WatermarkSleep ==
    /\ pc = "wm_sleep"
    /\ \E now \in clock..MaxNow, latest \in cyc.latest_block..MaxBlock :
          /\ clock' = now
          /\ cyc' = WindowCycle(cyc.WINDOW_STRATEGY, cyc.EARLY_STOP_MODE, latest)
    /\ pc' = "wm_start"
    /\ UNCHANGED state
    /\ WindowFrame

NextWindow == WatermarkCompute \/ WatermarkPersist \/ WatermarkSleep

SpecWindow == InitWindow /\ [][NextWindow]_vars

(***************************************************************************)
(* SpecAverage: RollingPriceBuffer.get_moving_average on an arbitrary      *)
(* buffer.  Prices are counted in units of 0.00025, so that 4000.0 is      *)
(* 16000000; an average is the pair of the sum and the number of the       *)
(* samples averaged (0.0 is the pair 0, 1).  cyc holds the argument and    *)
(* the returned value:                                                     *)
(*   pc = "avg_call"  before the call                                      *)
(*   pc = "avg_done"  returned                                             *)
(***************************************************************************)
MaxSamples == 4
MaxAvgWindow == 5

SamplePrices == {1, 10, 15, 15960000, 16000000, 16040000}

\* list[-n:]
LastN(l, n) ==
    IF n = 0 \/ n >= Len(l) THEN l ELSE SubSeq(l, Len(l) - n + 1, Len(l))

PricesOf(l) == [i \in 1..Len(l) |-> l[i].price]

RECURSIVE InsertAsc(_, _)
InsertAsc(x, l) ==
    IF l = <<>> THEN <<x>>
    ELSE IF x < Head(l) THEN <<x>> \o l
    ELSE <<Head(l)>> \o InsertAsc(x, Tail(l))

RECURSIVE SortAsc(_)
\* sorted(prices)
SortAsc(l) ==
    IF l = <<>> THEN <<>> ELSE InsertAsc(l[Len(l)], SortAsc(SubSeq(l, 1, Len(l) - 1)))

RECURSIVE SumSeq(_)
SumSeq(l) == IF l = <<>> THEN 0 ELSE Head(l) + SumSeq(Tail(l))

\* 0.1 <= p / median <= 10
WithinTenfoldInclusive(p, median) == 10 * p >= median /\ p <= 10 * median

\* 0.1 < (p / median_price) < 10, for median_price > 0
WithinTenfold(p, median) == 10 * p > median /\ p < 10 * median

\* RollingPriceBuffer.get_moving_average
GetMovingAverage(b, pool, window) ==
    LET recent == LastN(b[pool], window)
        prices == PricesOf(recent)
        sorted_prices == SortAsc(prices)
        median_price == sorted_prices[(Len(sorted_prices) \div 2) + 1]
        filtered == SelectSeq(prices, LAMBDA p : WithinTenfold(p, median_price))
    IN IF recent = <<>> THEN [sum |-> 0, n |-> 1]
       ELSE IF Len(prices) > 1 /\ median_price > 0 /\ filtered # <<>>
            THEN [sum |-> SumSeq(filtered), n |-> Len(filtered)]
       ELSE [sum |-> SumSeq(prices), n |-> Len(prices)]

AverageCall(window) == [window |-> window, ma |-> [sum |-> 0, n |-> 1]]

AverageBuffers ==
    {[i \in 1..Len(l) |-> [price |-> l[i], ts |-> LookbackSeconds]] :
        l \in UNION {[1..n -> SamplePrices] : n \in 0..MaxSamples}}

InitAverage ==
    /\ clock = LookbackSeconds
    /\ chain = <<>>
    /\ pc = "avg_call"
    /\ state = EmptyState
    /\ seen = {}
    /\ \E l \in AverageBuffers : priceBuf = [EmptyBuffers EXCEPT ![Pools[1]] = l]
    /\ previewHashes = {}
    /\ cyc \in {AverageCall(w) : w \in 1..MaxAvgWindow}
    /\ dataset = NoFile
    /\ datasetTmp = NoFile
    /\ windowSize = ROLLING_WINDOW_SIZE
    /\ pr = IdlePrune
    /\ metadata = NoDoc
    /\ preview = NoDoc
    /\ docTmp = NoTmp
    /\ stateFile = NoDoc
    /\ dedupeFile = NoDoc
    /\ bufFile = NoDoc
    /\ pvFile = NoDoc
    /\ served = NoResponse
    /\ hist = NoHist

MovingAverageCall ==
    /\ pc = "avg_call"
    /\ cyc' = [cyc EXCEPT !.ma = GetMovingAverage(priceBuf, Pools[1], cyc.window)]
    /\ pc' = "avg_done"
    /\ UNCHANGED <<clock, chain, state, seen, priceBuf, previewHashes, dataset, datasetTmp,
                   windowSize, pr, metadata, preview, docTmp, stateFile, dedupeFile,
                   bufFile, pvFile, served, hist>>

SpecAverage == InitAverage /\ [][MovingAverageCall]_vars

(***************************************************************************)
(* SpecSpread: the cross-pool spread and the alert of the preview header   *)
(* (update_preview_with_analytics) on arbitrary price buffers of the two   *)
(* pools.  Prices are counted in units of 0.001, so that 100.6 is 100600;  *)
(* the spread is counted in hundredths of a percent, as round(x, 2) leaves *)
(* it.  cyc holds the setting and the fields of the header:                *)
(*   pc = "spread_call"  before the header is built                        *)
(*   pc = "spread_done"  the header is built                               *)
(***************************************************************************)
\* max_age_seconds of the two get_latest_price calls, scaled
MaxAgeSeconds == 1

SpreadPrices == {1, 99400, 99496, 100000, 100300, 100504, 100506, 100600}

Abs(x) == IF x < 0 THEN 0 - x ELSE x

\* round(num / den, 0) for num >= 0, den > 0: to the nearest, a tie to the even
RoundHalfEven(num, den) ==
    LET q == num \div den
        r == num % den
    IN IF 2 * r > den \/ (2 * r = den /\ q % 2 = 1) THEN q + 1 ELSE q

\* RollingPriceBuffer.get_latest_price
GetLatestPrice(b, pool, now, max_age_seconds) ==
    LET l == b[pool]
        latest == l[Len(l)]
        sorted_prices == SortAsc(PricesOf(LastN(l, 5)))
        median_price == sorted_prices[(Len(sorted_prices) \div 2) + 1]
    IN IF l = <<>> THEN 0
       ELSE IF now - latest.ts > max_age_seconds THEN 0
       ELSE IF Len(l) >= 3 /\ median_price > 0 /\ ~WithinTenfold(latest.price, median_price) THEN 0
       ELSE latest.price

\* round(((price_a - price_b) / price_b) * 100.0, 2), in hundredths of a percent
SpreadPercent(price_a, price_b) ==
    LET h == RoundHalfEven(Abs(price_a - price_b) * 10000, price_b)
    IN IF price_a < price_b THEN 0 - h ELSE h

\* update_preview_with_analytics: spread_percent and arb_alert of the header
SpreadHeader(b, now, enable_spread_alerts) ==
    LET price_a == GetLatestPrice(b, Pools[1], now, MaxAgeSeconds)
        price_b == GetLatestPrice(b, Pools[2], now, MaxAgeSeconds)
    IN IF Len(Pools) = 2 /\ enable_spread_alerts /\ price_a > 0 /\ price_b > 0
       THEN [enable_spread_alerts |-> enable_spread_alerts,
             spread_percent |-> <<SpreadPercent(price_a, price_b)>>,
             alert |-> Abs(SpreadPercent(price_a, price_b)) > 50]
       ELSE [enable_spread_alerts |-> enable_spread_alerts,
             spread_percent |-> <<>>, alert |-> FALSE]

\* the buffer of one pool: empty, or a latest sample after no or two earlier ones
SpreadBuffers ==
    {<<>>} \cup
    {pre \o <<[price |-> p, ts |-> t]>> :
        pre \in {<<>>, <<[price |-> 100000, ts |-> 0], [price |-> 100000, ts |-> 0]>>},
        p \in SpreadPrices, t \in 0..LookbackSeconds}

InitSpread ==
    /\ clock = LookbackSeconds
    /\ chain = <<>>
    /\ pc = "spread_call"
    /\ state = EmptyState
    /\ seen = {}
    /\ priceBuf \in [Range(Pools) -> SpreadBuffers]
    /\ previewHashes = {}
    /\ cyc \in {[enable_spread_alerts |-> e, spread_percent |-> <<>>, alert |-> FALSE] :
                  e \in BOOLEAN}
    /\ dataset = NoFile
    /\ datasetTmp = NoFile
    /\ windowSize = ROLLING_WINDOW_SIZE
    /\ pr = IdlePrune
    /\ metadata = NoDoc
    /\ preview = NoDoc
    /\ docTmp = NoTmp
    /\ stateFile = NoDoc
    /\ dedupeFile = NoDoc
    /\ bufFile = NoDoc
    /\ pvFile = NoDoc
    /\ served = NoResponse
    /\ hist = NoHist

BuildSpreadHeader ==
    /\ pc = "spread_call"
    /\ cyc' = SpreadHeader(priceBuf, clock, cyc.enable_spread_alerts)
    /\ pc' = "spread_done"
    /\ UNCHANGED <<clock, chain, state, seen, priceBuf, previewHashes, dataset, datasetTmp,
                   windowSize, pr, metadata, preview, docTmp, stateFile, dedupeFile,
                   bufFile, pvFile, served, hist>>

SpecSpread == InitSpread /\ [][BuildSpreadHeader]_vars

(***************************************************************************)
(* SpecLatest: RollingPriceBuffer.get_latest_price on an arbitrary buffer  *)
(* of one pool, at any time of the call.  The prices the worker buffers    *)
(* are positive (run_cycle adds a price only when it is truthy).  cyc      *)
(* holds the arguments and the returned value:                             *)
(*   pc = "latest_call"  before the call                                   *)
(*   pc = "latest_done"  returned                                          *)
(***************************************************************************)
MaxLatestSamples == 6
MaxLatestAge == 2

LatestPrices == {1, 5, 10, 100}

\* the buffers of a pool whose samples were added at LookbackSeconds
LatestBuffers ==
    {[i \in 1..Len(l) |-> [price |-> l[i], ts |-> LookbackSeconds]] :
        l \in UNION {[1..n -> LatestPrices] : n \in 0..MaxLatestSamples}}

InitLatest ==
    /\ clock \in LookbackSeconds..(LookbackSeconds + MaxLatestAge)
    /\ chain = <<>>
    /\ pc = "latest_call"
    /\ state = EmptyState
    /\ seen = {}
    /\ \E l \in LatestBuffers : priceBuf = [EmptyBuffers EXCEPT ![Pools[1]] = l]
    /\ previewHashes = {}
    /\ cyc \in {[pool_id |-> p, max_age_seconds |-> a, price |-> 0] :
                  p \in Range(Pools), a \in 0..(MaxLatestAge - 1)}
    /\ dataset = NoFile
    /\ datasetTmp = NoFile
    /\ windowSize = ROLLING_WINDOW_SIZE
    /\ pr = IdlePrune
    /\ metadata = NoDoc
    /\ preview = NoDoc
    /\ docTmp = NoTmp
    /\ stateFile = NoDoc
    /\ dedupeFile = NoDoc
    /\ bufFile = NoDoc
    /\ pvFile = NoDoc
    /\ served = NoResponse
    /\ hist = NoHist

LatestPriceCall ==
    /\ pc = "latest_call"
    /\ cyc' = [cyc EXCEPT !.price = GetLatestPrice(priceBuf, cyc.pool_id, clock,
                                                   cyc.max_age_seconds)]
    /\ pc' = "latest_done"
    /\ UNCHANGED <<clock, chain, state, seen, priceBuf, previewHashes, dataset, datasetTmp,
                   windowSize, pr, metadata, preview, docTmp, stateFile, dedupeFile,
                   bufFile, pvFile, served, hist>>

SpecLatest == InitLatest /\ [][LatestPriceCall]_vars

(***************************************************************************)
(* SpecPreview: the preview of a worker configured with any PREVIEW_ROWS,  *)
(* cycle after cycle, while the dataset grows inside its window.  The row  *)
(* ingested n-th has timestamp n.  cyc holds preview_rows:                 *)
(*   pc = "pv_ingest"   between two cycles                                 *)
(*   pc = "pv_publish"  the batch is appended, the preview is to be built  *)
(***************************************************************************)
MaxPreviewRows == 4
MaxPreviewData == 5
MaxBatch == 2

\* a cycle appends its batch, none to MaxBatch rows newer than every row held
PreviewIngest ==
    /\ pc = "pv_ingest"
    /\ \E k \in 0..MaxBatch :
          /\ Len(dataset.lines) + k <= MaxPreviewData
          /\ dataset' = FileOf(dataset.lines \o
                               [i \in 1..k |->
                                   [tx |-> Len(dataset.lines) + i, li |-> 0, pool |-> Pools[1],
                                    ts |-> Len(dataset.lines) + i,
                                    blk |-> Len(dataset.lines) + i,
                                    price |-> PriceOf(Len(dataset.lines) + i)]])
    /\ pc' = "pv_publish"
    /\ UNCHANGED <<clock, chain, state, seen, priceBuf, previewHashes, cyc, datasetTmp,
                   windowSize, pr, metadata, preview, docTmp, stateFile, dedupeFile,
                   bufFile, pvFile, served, hist>>

\* update_preview_with_analytics: the rows selected, preview_state.update,
\* the preview written and renamed
PreviewPublish ==
    /\ pc = "pv_publish"
    /\ LET rows == ParsedRows(dataset.lines)
           sel  == PreviewSelectWith(rows, previewHashes, cyc.preview_rows)
       IN /\ preview' = DocOf([preview_rows |-> sel, total_rows |-> Len(rows)])
          /\ previewHashes' = PreviewStateUpdate(TxOfRows(sel))
    /\ pc' = "pv_ingest"
    /\ UNCHANGED <<clock, chain, state, seen, priceBuf, cyc, dataset, datasetTmp,
                   windowSize, pr, metadata, docTmp, stateFile, dedupeFile,
                   bufFile, pvFile, served, hist>>

InitPreview ==
    /\ clock = LookbackSeconds
    /\ chain = <<>>
    /\ pc = "pv_ingest"
    /\ state = EmptyState
    /\ seen = {}
    /\ priceBuf = EmptyBuffers
    /\ previewHashes = {}
    /\ cyc \in {[preview_rows |-> n] : n \in 1..MaxPreviewRows}
    /\ dataset = FileOf(<<>>)
    /\ datasetTmp = NoFile
    /\ windowSize = MaxPreviewData
    /\ pr = IdlePrune
    /\ metadata = NoDoc
    /\ preview = NoDoc
    /\ docTmp = NoTmp
    /\ stateFile = NoDoc
    /\ dedupeFile = NoDoc
    /\ bufFile = NoDoc
    /\ pvFile = NoDoc
    /\ served = NoResponse
    /\ hist = NoHist

SpecPreview == InitPreview /\ [][PreviewIngest \/ PreviewPublish]_vars

(***************************************************************************)
(* SpecMetadata: metadata.json with its Lighthouse fields, cycle after     *)
(* cycle: update_metadata, then upload_to_lighthouse_and_cleanup, which    *)
(* uploads or skips.  A field holds 0 when the document lacks it (or holds *)
(* null); a CID is a positive number, a time is the clock.                 *)
(*   pc = "md_update"  before update_metadata                              *)
(*   pc = "md_upload"  before upload_to_lighthouse_and_cleanup             *)
(***************************************************************************)
MaxMetaClock == 6
MaxCids == 2
MaxMetaRows == 1

\* the metadata dict of update_metadata without the fields it preserves
UpdateMetadataResettingCid(existing, row_count, now) ==
    [rows |-> row_count,
     last_updated |-> now,
     freshness_minutes |-> IF existing.st = "ok" /\ existing.val.last_updated # 0
                           THEN (now - existing.val.last_updated) \div 60 ELSE 0,
     latest_cid |-> 0,
     lighthouse_gateway |-> 0,
     lighthouse_updated |-> 0,
     encryption |-> 0,
     last_lighthouse_upload |-> 0]

\* the metadata dict of update_metadata: the new stats, and the Lighthouse
\* fields of the existing document when it can be read
UpdateMetadata(existing, row_count, now) ==
    LET readable == existing.st = "ok"
        old == existing.val
        kept(v) == IF readable /\ v # 0 THEN v ELSE 0
    IN [rows |-> row_count,
        last_updated |-> now,
        freshness_minutes |-> IF readable /\ old.last_updated # 0
                              THEN (now - old.last_updated) \div 60 ELSE 0,
        latest_cid |-> IF readable THEN old.latest_cid ELSE 0,
        lighthouse_gateway |-> IF readable THEN kept(old.lighthouse_gateway) ELSE 0,
        lighthouse_updated |-> IF readable THEN kept(old.lighthouse_updated) ELSE 0,
        encryption |-> IF readable THEN kept(old.encryption) ELSE 0,
        last_lighthouse_upload |-> IF readable THEN kept(old.last_lighthouse_upload) ELSE 0]

\* upload_to_lighthouse_and_cleanup: the document read, or {} when there is
\* none, with the Lighthouse fields of the upload
WithLighthouseFields(existing, new_cid, encrypted, now) ==
    LET old == IF existing.st = "ok" THEN existing.val
               ELSE [rows |-> 0, last_updated |-> 0, freshness_minutes |-> 0,
                     latest_cid |-> 0, lighthouse_gateway |-> 0, lighthouse_updated |-> 0,
                     encryption |-> 0, last_lighthouse_upload |-> 0]
    IN [old EXCEPT !.latest_cid = new_cid,
                   !.lighthouse_gateway = new_cid,
                   !.lighthouse_updated = now,
                   !.encryption = IF encrypted THEN new_cid ELSE old.encryption,
                   !.last_lighthouse_upload = now]

InitMetadata ==
    /\ clock = LookbackSeconds
    /\ chain = <<>>
    /\ pc \in {"md_update", "md_upload"}
    /\ state = EmptyState
    /\ seen = {}
    /\ priceBuf = EmptyBuffers
    /\ previewHashes = {}
    /\ cyc = [before |-> NoDoc]
    /\ dataset = NoFile
    /\ datasetTmp = NoFile
    /\ windowSize = ROLLING_WINDOW_SIZE
    /\ pr = IdlePrune
    /\ metadata = NoDoc
    /\ preview = NoDoc
    /\ docTmp = NoTmp
    /\ stateFile = NoDoc
    /\ dedupeFile = NoDoc
    /\ bufFile = NoDoc
    /\ pvFile = NoDoc
    /\ served = NoResponse
    /\ hist = NoHist

\* run_cycle: update_metadata(metadata_path, total_rows), a second or more
\* after the cycle before
MetadataUpdate ==
    /\ pc = "md_update"
    /\ clock < MaxMetaClock
    /\ clock' = clock + 1
    /\ \E row_count \in 0..MaxMetaRows :
          metadata' = DocOf(UpdateMetadata(metadata, row_count, clock + 1))
    /\ cyc' = [before |-> metadata]
    /\ pc' = "md_upload"
    /\ UNCHANGED <<chain, state, seen, priceBuf, previewHashes, dataset, datasetTmp,
                   windowSize, pr, preview, docTmp, stateFile, dedupeFile,
                   bufFile, pvFile, served, hist>>

\* run_cycle: upload_to_lighthouse_and_cleanup, which skips (upload disabled,
\* interval not passed, upload failed) or writes the fields of the new CID
LighthouseUpload ==
    /\ pc = "md_upload"
    /\ \/ UNCHANGED metadata
       \/ \E new_cid \in 1..MaxCids, encrypted \in BOOLEAN :
             metadata' = DocOf(WithLighthouseFields(metadata, new_cid, encrypted, clock))
    /\ pc' = "md_update"
    /\ UNCHANGED <<clock, chain, state, seen, priceBuf, previewHashes, cyc, dataset, datasetTmp,
                   windowSize, pr, preview, docTmp, stateFile, dedupeFile,
                   bufFile, pvFile, served, hist>>

SpecMetadata == InitMetadata /\ [][MetadataUpdate \/ LighthouseUpload]_vars

(***************************************************************************)
(* SpecCleanup: LighthouseCleanup.cleanup_old_files on any list of files.  *)
(* A CID is a positive number (1 and 2 are the permanent ones); a file is  *)
(* its CID, its file_id is its position in the list, which                 *)
(* list_all_files returns newest first; protected_cid 0 is None.  cyc      *)
(* holds the arguments, the listing and the deletes issued so far:         *)
(*   pc = "cleanup_call"    before the call                                *)
(*   pc = "cleanup_delete"  in the delete loop                             *)
(*   pc = "cleanup_done"    returned                                       *)
(***************************************************************************)
MaxFiles == 4
MaxCid == 4

PERMANENT_PROTECTED_CIDS == {1, 2}

\* min_files_to_keep of LighthouseCleanup.__init__
MinFilesToKeep == 1

\* a selection that protects the newest file whatever protected_cid is
IdentifyFilesToDeleteKeepingNewest(all_files, protected_cids, protected_cid) ==
    LET cids_to_protect == protected_cids \cup {all_files[1]}
    IN {i \in 1..Len(all_files) : all_files[i] \notin cids_to_protect}

\* identify_files_to_delete: the file_ids of files_to_delete
IdentifyFilesToDelete(all_files, protected_cids, protected_cid) ==
    LET cids_to_protect ==
            protected_cids \cup (IF protected_cid # 0 THEN {protected_cid} ELSE {all_files[1]})
    IN {i \in 1..Len(all_files) : all_files[i] \notin cids_to_protect}

InitCleanup ==
    /\ clock = LookbackSeconds
    /\ chain = <<>>
    /\ pc = "cleanup_call"
    /\ state = EmptyState
    /\ seen = {}
    /\ priceBuf = EmptyBuffers
    /\ previewHashes = {}
    /\ cyc \in {[all_files |-> f, protected_cids |-> PERMANENT_PROTECTED_CIDS \cup a,
                  protected_cid |-> c, dry_run |-> d, todo |-> {}, issued |-> {},
                  files_deleted |-> 0, files_failed |-> 0] :
                  f \in UNION {[1..n -> 1..MaxCid] : n \in 0..MaxFiles},
                  a \in SUBSET ((1..MaxCid) \ PERMANENT_PROTECTED_CIDS),
                  c \in 0..MaxCid, d \in BOOLEAN}
    /\ dataset = NoFile
    /\ datasetTmp = NoFile
    /\ windowSize = ROLLING_WINDOW_SIZE
    /\ pr = IdlePrune
    /\ metadata = NoDoc
    /\ preview = NoDoc
    /\ docTmp = NoTmp
    /\ stateFile = NoDoc
    /\ dedupeFile = NoDoc
    /\ bufFile = NoDoc
    /\ pvFile = NoDoc
    /\ served = NoResponse
    /\ hist = NoHist

\* cleanup_old_files up to the delete loop: the listing, the threshold, the
\* selection, the dry run
CleanupStart ==
    /\ pc = "cleanup_call"
    /\ LET todo == IdentifyFilesToDelete(cyc.all_files, cyc.protected_cids, cyc.protected_cid)
       IN IF \/ Len(cyc.all_files) <= Cardinality(PERMANENT_PROTECTED_CIDS) + MinFilesToKeep
             \/ todo = {}
             \/ cyc.dry_run
          THEN pc' = "cleanup_done" /\ cyc' = cyc
          ELSE pc' = "cleanup_delete" /\ cyc' = [cyc EXCEPT !.todo = todo]
    /\ UNCHANGED <<clock, chain, state, seen, priceBuf, previewHashes, dataset, datasetTmp,
                   windowSize, pr, metadata, preview, docTmp, stateFile, dedupeFile,
                   bufFile, pvFile, served, hist>>

\* one iteration of the delete loop: delete_file(file) succeeds or fails
CleanupDeleteFile ==
    /\ pc = "cleanup_delete"
    /\ LET i == CHOOSE i \in cyc.todo : \A j \in cyc.todo : i <= j
       IN \E ok \in BOOLEAN :
             cyc' = [cyc EXCEPT !.todo = cyc.todo \ {i},
                                !.issued = cyc.issued \cup {i},
                                !.files_deleted = cyc.files_deleted + (IF ok THEN 1 ELSE 0),
                                !.files_failed = cyc.files_failed + (IF ok THEN 0 ELSE 1)]
    /\ pc' = IF Cardinality(cyc.todo) = 1 THEN "cleanup_done" ELSE "cleanup_delete"
    /\ UNCHANGED <<clock, chain, state, seen, priceBuf, previewHashes, dataset, datasetTmp,
                   windowSize, pr, metadata, preview, docTmp, stateFile, dedupeFile,
                   bufFile, pvFile, served, hist>>

SpecCleanup == InitCleanup /\ [][CleanupStart \/ CleanupDeleteFile]_vars

(***************************************************************************)
(* SpecTracker: a DedupeTracker of any capacity under arbitrary calls of   *)
(* mark_seen and prune, from the empty tracker.  seen is self.seen; cyc    *)
(* holds max_size, the argument of the last mark_seen and, as observers,   *)
(* the keys in the order they were inserted:                               *)
(*   order0   keys held when the last mark_seen had added its key          *)
(*   order    keys held now                                                *)
(*   evicted  keys the last mark_seen removed                              *)
(*   pc = "tracker_new" / "tracker_marked" / "tracker_pruned"              *)
(***************************************************************************)
MaxCapacity == 5
MaxKeys == 6
MaxDropped == 2

TrackerKeys == {DedupeKey(tx, 0) : tx \in 1..MaxKeys}

\* int(self.max_size * 0.2)
EvictCountOf(max_size) == (max_size * 2) \div 10

\* DedupeTracker.mark_seen for a tracker of capacity max_size: the sets of
\* keys the call may remove (list(self.seen)[:n] follows the iteration order
\* of the set, which is the order of the hash table)
MarkSeenEvictions(s, key, max_size) ==
    LET s1 == s \cup {key}
    IN IF Cardinality(s1) > max_size
       THEN {R \in SUBSET s1 : Cardinality(R) = EvictCountOf(max_size)}
       ELSE {{}}

NewTracker(max_size) ==
    [max_size |-> max_size, last |-> <<>>, order0 |-> <<>>, order |-> <<>>, evicted |-> {}]

TrackerFrame ==
    UNCHANGED <<clock, chain, state, priceBuf, previewHashes, dataset, datasetTmp, windowSize,
                pr, metadata, preview, docTmp, stateFile, dedupeFile, bufFile, pvFile,
                served, hist>>

\* DedupeTracker(max_size)
InitTracker ==
    /\ clock = LookbackSeconds
    /\ chain = <<>>
    /\ pc = "tracker_new"
    /\ state = EmptyState
    /\ seen = {}
    /\ priceBuf = EmptyBuffers
    /\ previewHashes = {}
    /\ cyc \in {NewTracker(m) : m \in 1..MaxCapacity}
    /\ dataset = NoFile
    /\ datasetTmp = NoFile
    /\ windowSize = ROLLING_WINDOW_SIZE
    /\ pr = IdlePrune
    /\ metadata = NoDoc
    /\ preview = NoDoc
    /\ docTmp = NoTmp
    /\ stateFile = NoDoc
    /\ dedupeFile = NoDoc
    /\ bufFile = NoDoc
    /\ pvFile = NoDoc
    /\ served = NoResponse
    /\ hist = NoHist

\* DedupeTracker.mark_seen
TrackerMarkSeen ==
    /\ \E key \in TrackerKeys :
         \E R \in MarkSeenEvictions(seen, key, cyc.max_size) :
            LET o1 == IF key \in seen THEN cyc.order ELSE Append(cyc.order, key)
            IN /\ seen' = (seen \cup {key}) \ R
               /\ cyc' = [cyc EXCEPT !.last = key, !.order0 = o1,
                                     !.order = SelectSeq(o1, LAMBDA k : k \notin R),
                                     !.evicted = R]
    /\ pc' = "tracker_marked"
    /\ TrackerFrame

\* DedupeTracker.prune, called with the keys of up to MaxDropped held rows
TrackerPrune ==
    /\ \E keys \in {K \in SUBSET seen : Cardinality(K) \in 1..MaxDropped} :
          /\ seen' = DedupePrune(seen, keys)
          /\ cyc' = [NewTracker(cyc.max_size) EXCEPT
                       !.order = SelectSeq(cyc.order, LAMBDA k : k \notin keys)]
    /\ pc' = "tracker_pruned"
    /\ TrackerFrame

NextTracker == TrackerMarkSeen \/ TrackerPrune

SpecTracker == InitTracker /\ [][NextTracker]_vars

(***************************************************************************)
(* SpecBuffer: a RollingPriceBuffer of any capacity under arbitrary calls  *)
(* of add_price, from the empty buffer.  The n-th sample added has price   *)
(* 100 + n.  cyc holds max_size and, as an observer, every sample added    *)
(* per pool:                                                               *)
(*   pc = "buffer_new" / "buffer_added"                                    *)
(***************************************************************************)
MaxBufCapacity == 3
MaxAdds == 6

InitBuffer ==
    /\ clock = LookbackSeconds
    /\ chain = <<>>
    /\ pc = "buffer_new"
    /\ state = EmptyState
    /\ seen = {}
    /\ priceBuf = EmptyBuffers
    /\ previewHashes = {}
    /\ cyc \in {[max_size |-> m, added |-> EmptyBuffers, n |-> 0] : m \in 1..MaxBufCapacity}
    /\ dataset = NoFile
    /\ datasetTmp = NoFile
    /\ windowSize = ROLLING_WINDOW_SIZE
    /\ pr = IdlePrune
    /\ metadata = NoDoc
    /\ preview = NoDoc
    /\ docTmp = NoTmp
    /\ stateFile = NoDoc
    /\ dedupeFile = NoDoc
    /\ bufFile = NoDoc
    /\ pvFile = NoDoc
    /\ served = NoResponse
    /\ hist = NoHist

\* RollingPriceBuffer.add_price
BufferAddPrice ==
    /\ cyc.n < MaxAdds
    /\ \E pool \in Range(Pools) :
          /\ priceBuf' = AddPriceWith(priceBuf, pool, 101 + cyc.n, clock, cyc.max_size)
          /\ cyc' = [cyc EXCEPT !.n = cyc.n + 1,
                                !.added[pool] = Append(cyc.added[pool],
                                                       [price |-> 101 + cyc.n, ts |-> clock])]
    /\ pc' = "buffer_added"
    /\ UNCHANGED <<clock, chain, state, seen, previewHashes, dataset, datasetTmp, windowSize,
                   pr, metadata, preview, docTmp, stateFile, dedupeFile, bufFile, pvFile,
                   served, hist>>

SpecBuffer == InitBuffer /\ [][BufferAddPrice]_vars

(***************************************************************************)
(* SpecTransform: two steps that turn fetched items into rows, each on     *)
(* arbitrary inputs held in cyc:                                           *)
(*   kind = "swap"   the four amounts of a 5-parameter Swap event, of      *)
(*                   which normalize_log_to_swap resolves the direction    *)
(*   kind = "batch"  the rows of the two pools in a batch, to which        *)
(*                   run_cycle assigns delta_vs_other_pool                 *)
(* A delta is a fraction <<numerator, denominator>> of a percent, <<>>     *)
(* when the field is not set; the block of a row is numbered by its        *)
(* timestamp.                                                              *)
(*   pc = "transform_call" / "transform_done"                              *)
(***************************************************************************)
MaxAmount == 2
MaxPoolRows == 2

\* the tolerance of time_match (60 seconds), scaled
MatchSeconds == 2

\* normalize_log_to_swap, V2 format: token_in and token_out as a direction
SwapDirection(amount0_in, amount1_in, amount0_out, amount1_out) ==
    IF amount0_in > 0 /\ amount1_out > 0 THEN "token0_to_token1"
    ELSE IF amount1_in > 0 /\ amount0_out > 0 THEN "token1_to_token0"
    ELSE "none"

\* transform.compute_price_delta, for prices > 0: (a - b) / b * 100 after a
\* is inverted when a / b is over 100 or under 0.01
ComputePriceDelta(price_a, price_b) ==
    IF price_a > 100 * price_b \/ 100 * price_a < price_b
    THEN <<(1 - price_a * price_b) * 100, price_a * price_b>>
    ELSE <<(price_a - price_b) * 100, price_b>>

\* -delta
Negated(delta) == <<0 - delta[1], delta[2]>>

\* block_match or time_match
PoolRowsMatch(row_a, row_b) ==
    row_a.ts = row_b.ts \/ Abs(row_a.ts - row_b.ts) < MatchSeconds

RECURSIVE MatchPairs(_, _, _, _, _)
\* run_cycle: the loop over row_a and, inside it, over row_b, from the pair
\* (i, j) on; d holds the deltas assigned so far
MatchPairs(rows_a, rows_b, i, j, d) ==
    IF i > Len(rows_a) THEN d
    ELSE IF j > Len(rows_b) THEN MatchPairs(rows_a, rows_b, i + 1, 1, d)
    ELSE IF PoolRowsMatch(rows_a[i], rows_b[j]) /\ rows_a[i].price # 0 /\ rows_b[j].price # 0
         THEN LET delta == ComputePriceDelta(rows_a[i].price, rows_b[j].price)
              IN MatchPairs(rows_a, rows_b, i, j + 1,
                            [a |-> [d.a EXCEPT ![i] = delta],
                             b |-> [d.b EXCEPT ![j] = Negated(delta)]])
         ELSE MatchPairs(rows_a, rows_b, i, j + 1, d)

\* run_cycle: "Compute cross-pool price deltas if both pools have data"
CrossPoolDeltas(rows_a, rows_b) ==
    MatchPairs(rows_a, rows_b, 1, 1,
               [a |-> [i \in 1..Len(rows_a) |-> <<>>], b |-> [j \in 1..Len(rows_b) |-> <<>>]])

\* the rows of one pool in a batch: timestamp and normalized_price
PoolRowLists ==
    UNION {[1..n -> [ts : {0, 1, 3}, price : {1, 101, 200}]] : n \in 0..MaxPoolRows}

TransformInputs ==
    {[kind |-> "swap", amount0_in |-> a, amount1_in |-> b, amount0_out |-> c,
      amount1_out |-> d, direction |-> ""] :
        a \in 0..MaxAmount, b \in 0..MaxAmount, c \in 0..MaxAmount, d \in 0..MaxAmount}
    \cup
    {[kind |-> "batch", rows_a |-> ra, rows_b |-> rb, delta |-> [a |-> <<>>, b |-> <<>>]] :
        ra \in PoolRowLists, rb \in PoolRowLists}

InitTransform ==
    /\ clock = LookbackSeconds
    /\ chain = <<>>
    /\ pc = "transform_call"
    /\ state = EmptyState
    /\ seen = {}
    /\ priceBuf = EmptyBuffers
    /\ previewHashes = {}
    /\ cyc \in TransformInputs
    /\ dataset = NoFile
    /\ datasetTmp = NoFile
    /\ windowSize = ROLLING_WINDOW_SIZE
    /\ pr = IdlePrune
    /\ metadata = NoDoc
    /\ preview = NoDoc
    /\ docTmp = NoTmp
    /\ stateFile = NoDoc
    /\ dedupeFile = NoDoc
    /\ bufFile = NoDoc
    /\ pvFile = NoDoc
    /\ served = NoResponse
    /\ hist = NoHist

\* normalize_log_to_swap: "Determine swap direction based on event format"
ResolveDirection ==
    /\ pc = "transform_call"
    /\ cyc.kind = "swap"
    /\ cyc' = [cyc EXCEPT !.direction = SwapDirection(cyc.amount0_in, cyc.amount1_in,
                                                       cyc.amount0_out, cyc.amount1_out)]
    /\ pc' = "transform_done"
    /\ UNCHANGED <<clock, chain, state, seen, priceBuf, previewHashes, dataset, datasetTmp,
                   windowSize, pr, metadata, preview, docTmp, stateFile, dedupeFile,
                   bufFile, pvFile, served, hist>>

\* run_cycle: the cross-pool matching step
MatchPools ==
    /\ pc = "transform_call"
    /\ cyc.kind = "batch"
    /\ cyc' = [cyc EXCEPT !.delta = IF cyc.rows_a # <<>> /\ cyc.rows_b # <<>>
                                    THEN CrossPoolDeltas(cyc.rows_a, cyc.rows_b)
                                    ELSE [a |-> [i \in 1..Len(cyc.rows_a) |-> <<>>],
                                          b |-> [j \in 1..Len(cyc.rows_b) |-> <<>>]]]
    /\ pc' = "transform_done"
    /\ UNCHANGED <<clock, chain, state, seen, priceBuf, previewHashes, dataset, datasetTmp,
                   windowSize, pr, metadata, preview, docTmp, stateFile, dedupeFile,
                   bufFile, pvFile, served, hist>>

SpecTransform == InitTransform /\ [][ResolveDirection \/ MatchPools]_vars

(***************************************************************************)
(* SpecPaging: the page loop of one pool in fetch_and_process_logs and in  *)
(* fetch_and_process_transactions, against a source that may report a      *)
(* further page after every page and never crosses the watermark, and      *)
(* whose items may make the normalization raise.  A page is the sequence   *)
(* of its items, TRUE for an item whose normalization raises; cyc holds    *)
(* the locals of the loop and, as observers, the last page and the good    *)
(* items fetched so far:                                                   *)
(*   requests  pages requested from the source                             *)
(*   rows      items turned into rows, as <<page, position>>               *)
(*   left      the loop was left                                           *)
(*   pc = "paging"                                                         *)
(***************************************************************************)
MaxRequests == 4
MaxItems == 3

\* the positions of the page whose item is normalized: the logs path wraps
\* each normalize_log_to_swap in try / except and goes on; on the
\* transaction path an exception of normalize_tx leaves the for loop
NormalizedItems(path, page) ==
    {n \in 1..Len(page) :
        /\ ~page[n]
        /\ path = "transactions" => \A m \in 1..n : ~page[m]}

\* the exception of an item reaches the except clause around the page
PageRaises(path, page) == path = "transactions" /\ \E n \in 1..Len(page) : page[n]

InitPaging ==
    /\ clock = LookbackSeconds
    /\ chain = <<>>
    /\ pc = "paging"
    /\ state = EmptyState
    /\ seen = {}
    /\ priceBuf = EmptyBuffers
    /\ previewHashes = {}
    /\ cyc \in {[path |-> p, requests |-> 0, rows |-> {}, good |-> {}, page |-> <<>>,
                 more |-> FALSE, left |-> FALSE] : p \in {"logs", "transactions"}}
    /\ dataset = NoFile
    /\ datasetTmp = NoFile
    /\ windowSize = ROLLING_WINDOW_SIZE
    /\ pr = IdlePrune
    /\ metadata = NoDoc
    /\ preview = NoDoc
    /\ docTmp = NoTmp
    /\ stateFile = NoDoc
    /\ dedupeFile = NoDoc
    /\ bufFile = NoDoc
    /\ pvFile = NoDoc
    /\ served = NoResponse
    /\ hist = NoHist

\* one turn of the page loop: "while page_count < max_pages" on the logs
\* path, "while True" on the transaction path
FetchItemsPage ==
    /\ ~cyc.left
    /\ cyc.path = "logs" => cyc.requests < MAX_PAGES_PER_CYCLE
    /\ cyc.requests < MaxRequests
    /\ \E page \in [1..MaxItems -> BOOLEAN], more \in BOOLEAN :
          LET r == cyc.requests + 1
          IN cyc' = [cyc EXCEPT
                       !.requests = r,
                       !.page = page,
                       !.more = more,
                       !.rows = cyc.rows \cup {<<r, n>> : n \in NormalizedItems(cyc.path, page)},
                       !.good = cyc.good \cup {<<r, n>> : n \in {m \in 1..MaxItems : ~page[m]}},
                       !.left = \/ PageRaises(cyc.path, page)
                                \/ ~more
                                \/ cyc.path = "logs" /\ r >= MAX_PAGES_PER_CYCLE]
    /\ UNCHANGED <<clock, chain, pc, state, seen, priceBuf, previewHashes, dataset, datasetTmp,
                   windowSize, pr, metadata, preview, docTmp, stateFile, dedupeFile,
                   bufFile, pvFile, served, hist>>

\* the request raises: except, break
FetchItemsError ==
    /\ ~cyc.left
    /\ cyc.path = "logs" => cyc.requests < MAX_PAGES_PER_CYCLE
    /\ cyc.requests < MaxRequests
    /\ cyc' = [cyc EXCEPT !.requests = cyc.requests + 1, !.page = <<>>, !.more = FALSE,
                          !.left = TRUE]
    /\ UNCHANGED <<clock, chain, pc, state, seen, priceBuf, previewHashes, dataset, datasetTmp,
                   windowSize, pr, metadata, preview, docTmp, stateFile, dedupeFile,
                   bufFile, pvFile, served, hist>>

SpecPaging == InitPaging /\ [][FetchItemsPage \/ FetchItemsError]_vars

(***************************************************************************)
(* Properties                                                              *)
(***************************************************************************)
\* no two rows share (tx_hash, log_index)
UniqueRows(rows) ==
    \A i, j \in 1..Len(rows) : RowKey(rows[i]) = RowKey(rows[j]) => i = j

LiveRows == ParsedRows(dataset.lines)

\* C1: after any sequence of ingestion cycles in a process that keeps running
\* (append, window pruning, Dedup Set eviction and pruning), no two rows of
\* the live dataset file share the same (tx_hash, log_index) pair.
C1_UniqueAfterCycles == pc = "sleep" => UniqueRows(LiveRows)

\* C2: a crash after run_cycle appended its batch and before main() persisted
\* the checkpoint is safely repeatable: after the restart no cycle appends a
\* row whose (tx_hash, log_index) is already in the dataset.
C2_RepeatableAfterCrash == (hist.mid /\ ~hist.evicted) => UniqueRows(LiveRows)

\* the cycle raised after the fetch and before the first row of its batch
\* reached the dataset file
AbortedBeforeAppend == pc = "raised" /\ cyc.batch # <<>> /\ cyc.i = 0

\* C3: a cycle that aborts after fetching and normalizing and before the
\* append leaves the in-memory Dedup Set and Rolling Price Buffer at their
\* pre-cycle values.
C3_AbortLeavesNoSideEffects ==
    AbortedBeforeAppend => (seen = cyc.seen0 /\ priceBuf = cyc.buf0)

\* the call returned
PruneReturned == pc = "prune_done"
\* the call rewrote the file
PruneRewrote == pr.dropped # <<>>
\* the rows of the file before the call
RowsBefore == ParsedRows(hist.file0.lines)

\* C4: after apply_rolling_window_pruning(file, window_size) returns, the
\* dataset file holds at most window_size rows.
C4_PruneBoundsFile == PruneReturned => Len(LiveRows) <= windowSize

\* a call that dropped rows returned and left a full window
C4_Witness ==
    /\ PruneReturned
    /\ PruneRewrote
    /\ windowSize > 0
    /\ Len(LiveRows) = windowSize

Count(x, s) == Cardinality({i \in 1..Len(s) : s[i] = x})
SameMultiset(a, b) == \A x \in Range(a) \cup Range(b) : Count(x, a) = Count(x, b)
\* (timestamp, block_number) of a is at least that of b
KeyAtLeast(a, b) == a.ts > b.ts \/ (a.ts = b.ts /\ a.blk >= b.blk)

\* C5: when pruning drops rows, the retained rows are the window_size rows
\* with the largest (timestamp, block_number): every retained key is at least
\* every dropped key, and retained plus dropped rows are the pre-prune
\* multiset of rows.
C5_PruneKeepsNewest ==
    (PruneReturned /\ PruneRewrote) =>
        /\ Len(LiveRows) = windowSize
        /\ \A i \in 1..Len(LiveRows), j \in 1..Len(pr.dropped) :
               KeyAtLeast(LiveRows[i], pr.dropped[j])
        /\ SameMultiset(LiveRows \o pr.dropped, RowsBefore)

\* a prune decided by the block_number tiebreaker on a file that holds the
\* same row twice
C5_Witness ==
    /\ PruneReturned
    /\ PruneRewrote
    /\ \E i \in 1..Len(LiveRows), j \in 1..Len(pr.dropped) :
          /\ LiveRows[i].ts = pr.dropped[j].ts
          /\ LiveRows[i].blk > pr.dropped[j].blk
    /\ \E x \in Range(RowsBefore) : Count(x, RowsBefore) > 1

\* the position of the call, or the position at which the process died
PruneAt == IF pc = "crashed" THEN hist.at ELSE pc

\* C6: while the temp file is written and until the rename, the live dataset
\* file holds the complete pre-prune content; after the rename it holds the
\* complete retained set; a crash at any of these points leaves it so.
C6_PruneRewriteAtomic ==
    /\ PruneAt \in {"prune_write", "prune_sync", "prune_replace"} => dataset = hist.file0
    /\ (PruneAt = "prune_done" /\ PruneRewrote) =>
           dataset = FileOf(PruneKept(RowsBefore, windowSize))

\* the process died with the temp file open and partly written
C6_Witness ==
    /\ pc = "crashed"
    /\ hist.at = "prune_sync"
    /\ datasetTmp.exists
    /\ datasetTmp.lines # pr.kept
    /\ dataset = hist.file0
    /\ Len(RowsBefore) > windowSize

\* the page the next get_logs call of the page loop returns
PageAhead == GetLogsPage(Pools[cyc.pool], cyc.page + 1).logs

\* C11: when the page fetched for a pool holds a log whose timestamp is at or
\* below the cycle's watermark, the page loop of that pool ends with this page
\* (no further page is requested for the pool in the cycle) and the
\* statistics report early_stop_triggered.
C11_EarlyStopEndsPagination ==
    [][(FetchPageOk /\ \E n \in 1..Len(PageAhead) : PageAhead[n].ts <= cyc.wm) =>
         (cyc'.early /\ cyc'.pool # cyc.pool /\ cyc'.page = 0)]_vars

\* the first pool stopped at its first page although the source had a next page
C11_Witness ==
    /\ pc = "fetch"
    /\ cyc.pool = 2
    /\ cyc.early
    /\ cyc.wm > 0
    /\ MinOfSeq(TsOf(GetLogsPage(Pools[1], 1).logs), 0) <= cyc.wm
    /\ GetLogsPage(Pools[1], 1).next

\* the logs of the first pool that lie behind the pages a cycle may fetch
BehindBudget == Suffix(PoolLogsFrom(Pools[1], Len(chain)), MAX_PAGES_PER_CYCLE * PageSize)

\* the page loop of the first pool ended at the page budget: no early stop,
\* and the last page fetched came with a next cursor
BudgetExhausted ==
    /\ pc = "fetch"
    /\ cyc.pool = 2
    /\ ~cyc.early
    /\ \A n \in 1..Len(BehindBudget) : BehindBudget[n].ts > cyc.wm
    /\ GetLogsPage(Pools[1], MAX_PAGES_PER_CYCLE).next

\* C12: when the page loop of a pool stops at the page budget before the
\* watermark is reached, the items of the pages not fetched are appended to
\* the dataset by a later cycle (here in its weakest form: at least one of
\* them is in the dataset at some later point).
C12_BudgetLeftoverIngested ==
    BudgetExhausted ~>
        (\E n \in 1..Len(BehindBudget) : RowKey(BehindBudget[n]) \in RowKeys(LiveRows))

\* C13: processing is at-most-once: however often the source returns the same
\* raw item, in one cycle or in several, the item is accepted (normalized
\* and put into a batch for the dataset) once.  Stated here for the runs in
\* which the Dedup Set never evicted and the process never crashed.
C13_AcceptedOnce == (~hist.evicted /\ ~hist.crashed) => ~hist.again

\* C14: a fetch error while one pool is paginated leaves the rows accepted so
\* far in the batch and does not end the fetch: the next configured pool is
\* paginated from its first page in the same cycle, and when the append has
\* run the dataset ends with the rows of the batch.
C14_FetchErrorSkipsOnePool ==
    [][/\ FetchPageError =>
            /\ cyc'.batch = cyc.batch
            /\ seen' = seen
            /\ cyc.pool < Len(Pools) =>
                  (pc' = "fetch" /\ cyc'.pool = cyc.pool + 1 /\ cyc'.page = 0)
       /\ (pc = "append" /\ pc' = "prune") =>
            Suffix(dataset'.lines, Len(dataset'.lines) - Len(cyc.batch)) = cyc.batch]_vars

\* the batch was appended with rows of the second pool only, although the
\* first page of the first pool holds a log the worker never saw
C14_Witness ==
    /\ pc = "prune"
    /\ cyc.batch # <<>>
    /\ \A n \in 1..Len(cyc.batch) : cyc.batch[n].pool = Pools[2]
    /\ ~hist.evicted
    /\ \E n \in 1..Len(GetLogsPage(Pools[1], 1).logs) :
          RowKey(GetLogsPage(Pools[1], 1).logs[n]) \notin hist.accepted
    /\ Range(cyc.batch) \subseteq Range(LiveRows)

\* the watermark the early-stop test of the page loop compares with
UsedWatermark ==
    IF cyc.early_stop_mode = "timestamp" THEN cyc.watermark_ts ELSE cyc.watermark_block

\* C15: in every cycle the watermark used for early stop is the larger of the
\* persisted watermark (0 when missing) and now minus the lookback: of
\* last_seen_ts and now_ts - WINDOW_MINUTES*60 when early stop is by
\* timestamp, of last_seen_block and latest_block - BLOCK_LOOKBACK when it is
\* by block.
C15_WatermarkIsMax ==
    pc = "wm_fetch" =>
        UsedWatermark =
            IF cyc.early_stop_mode = "timestamp"
            THEN Max2(state.last_seen_ts, clock - LookbackSeconds)
            ELSE Max2(state.last_seen_block, cyc.latest_block - BLOCK_LOOKBACK)

\* C15 holds whenever the early-stop setting is unset or equals the strategy
C15_WatermarkIsMaxWhenModesAgree ==
    (pc = "wm_fetch" /\ cyc.early_stop_mode = cyc.WINDOW_STRATEGY) =>
        UsedWatermark =
            IF cyc.early_stop_mode = "timestamp"
            THEN Max2(state.last_seen_ts, clock - LookbackSeconds)
            ELSE Max2(state.last_seen_block, cyc.latest_block - BLOCK_LOOKBACK)

\* C16: in every cycle the span from the watermark of the cycle to now is at
\* least the configured lookback, in seconds under the timestamp strategy
\* and in blocks under the block strategy.
C16_WindowCoversLookback ==
    pc = "wm_fetch" =>
        IF cyc.WINDOW_STRATEGY = "timestamp"
        THEN clock - cyc.watermark_ts >= LookbackSeconds
        ELSE cyc.latest_block - cyc.watermark_block >= BLOCK_LOOKBACK

\* the span from the watermark of the cycle to now, in the unit of the strategy
WindowSpan ==
    IF cyc.WINDOW_STRATEGY = "timestamp"
    THEN clock - cyc.watermark_ts
    ELSE cyc.latest_block - cyc.watermark_block

\* the distance from the persisted watermark to now, in the unit of the strategy
SincePersisted ==
    IF cyc.WINDOW_STRATEGY = "timestamp"
    THEN clock - state.last_seen_ts
    ELSE cyc.latest_block - state.last_seen_block

ConfiguredLookback ==
    IF cyc.WINDOW_STRATEGY = "timestamp" THEN LookbackSeconds ELSE BLOCK_LOOKBACK

\* C16 as amended: the span from the watermark of the cycle to now never
\* exceeds the configured lookback; it is the smaller of the lookback and of
\* the distance from the persisted watermark to now.
C16_WindowWithinLookback ==
    pc = "wm_fetch" =>
        WindowSpan = IF SincePersisted < ConfiguredLookback
                     THEN SincePersisted ELSE ConfiguredLookback

\* a later cycle of the timestamp strategy whose window is shorter than the lookback
C16_Witness ==
    /\ pc = "wm_fetch"
    /\ cyc.WINDOW_STRATEGY = "timestamp"
    /\ state.last_seen_ts > 0
    /\ cyc.watermark_ts = state.last_seen_ts
    /\ clock - cyc.watermark_ts < LookbackSeconds

\* the positions of the last cyc.window samples of the pool
RecentIdx ==
    {i \in 1..Len(priceBuf[Pools[1]]) : i > Len(priceBuf[Pools[1]]) - cyc.window}

PriceAt(i) == priceBuf[Pools[1]][i].price

\* the median of the recent samples: the sample with at most half of the
\* samples below it and more than half of them at or below it (for an even
\* number of samples, the upper of the two middle ones)
IsMedianOfRecent(m) ==
    /\ \E i \in RecentIdx : PriceAt(i) = m
    /\ Cardinality({i \in RecentIdx : PriceAt(i) < m}) <= Cardinality(RecentIdx) \div 2
    /\ Cardinality({i \in RecentIdx : PriceAt(i) <= m}) > Cardinality(RecentIdx) \div 2

\* the positions whose sample is strictly between a tenth and ten times m
KeptIdx(m) == {i \in RecentIdx : 10 * PriceAt(i) > m /\ PriceAt(i) < 10 * m}

RECURSIVE SumOver(_)
SumOver(I) ==
    IF I = {} THEN 0 ELSE LET i == CHOOSE j \in I : TRUE IN PriceAt(i) + SumOver(I \ {i})

\* cyc.ma is the mean of the samples at the positions I
IsMeanOver(I) == cyc.ma.sum * Cardinality(I) = SumOver(I) * cyc.ma.n

\* C17: get_moving_average returns 0.0 for a pool without samples; otherwise
\* it takes the last `window` samples and, when they are more than one,
\* returns the mean of the samples whose ratio to the median is strictly
\* between 0.1 and 10, and the mean of all of them when no sample is kept or
\* there is one sample only; [4000, 4010, 0.00025, 3990] with window 4
\* gives 4000.
C17_MovingAverageFiltersOutliers ==
    pc = "avg_done" =>
        /\ cyc.ma.n > 0
        /\ RecentIdx = {} => cyc.ma.sum = 0
        /\ Cardinality(RecentIdx) = 1 => IsMeanOver(RecentIdx)
        /\ Cardinality(RecentIdx) > 1 =>
              \A m \in SamplePrices :
                  IsMedianOfRecent(m) =>
                      IF KeptIdx(m) # {} THEN IsMeanOver(KeptIdx(m)) ELSE IsMeanOver(RecentIdx)
        /\ (PricesOf(priceBuf[Pools[1]]) = <<16000000, 16040000, 1, 15960000>> /\ cyc.window = 4) =>
              cyc.ma.sum = 16000000 * cyc.ma.n

\* the average of [4000, 4010, 0.00025, 3990] over a window of 4 was
\* returned, and it left the outlier out
C17_Witness ==
    /\ pc = "avg_done"
    /\ PricesOf(priceBuf[Pools[1]]) = <<16000000, 16040000, 1, 15960000>>
    /\ cyc.window = 4
    /\ cyc.ma.n = 3

\* the latest prices the two pools report
ReportedA == GetLatestPrice(priceBuf, Pools[1], clock, MaxAgeSeconds)

ReportedB == GetLatestPrice(priceBuf, Pools[2], clock, MaxAgeSeconds)

\* C18: with two pools and spread alerts enabled, the header carries an
\* alert if and only if both pools report a non-stale latest price and
\* |(priceA - priceB) / priceB * 100| is greater than 0.5.
C18_AlertIffSpreadOverThreshold ==
    (pc = "spread_done" /\ cyc.enable_spread_alerts) =>
        (cyc.alert <=>
            /\ ReportedA > 0
            /\ ReportedB > 0
            /\ Abs(ReportedA - ReportedB) * 200 > ReportedB)

\* C19: the updated_ago_seconds of the preview header built by a cycle is now
\* minus the largest timestamp among all rows of the dataset file, also in a
\* cycle that ingested no row.
C19_UpdatedAgoIsStaleness ==
    (pc = "preview_sync" /\ LiveRows # <<>>) =>
        cyc.doc.updated_ago_seconds = cyc.now - MaxOfSeq(TsOf(LiveRows), 0)

\* C20: at every cycle boundary of a worker started with an empty dataset and
\* an empty Dedup Set, the Dedup Set holds exactly the keys of the rows of the
\* dataset window: no key without a row, no row without a key.
C20_DedupMirrorsWindow ==
    (pc = "sleep" /\ ~hist.crashed) => seen = RowKeys(LiveRows)

\* C20 in the runs where mark_seen never went over max_size
C20_DedupMirrorsWindowWithoutEviction ==
    (pc = "sleep" /\ ~hist.crashed /\ ~hist.evicted) => seen = RowKeys(LiveRows)

\* C21: at the end of every completed cycle that leaves a row in the dataset,
\* every sample of every pool's price buffer is at least as recent as the
\* oldest row the dataset window retains.
C21_BufferWithinWindow ==
    (pc = "sleep" /\ hist.cycles > 0 /\ LiveRows # <<>>) =>
        \A p \in DOMAIN priceBuf :
            \A n \in 1..Len(priceBuf[p]) : priceBuf[p][n].ts >= OldestTs(LiveRows)

\* a cycle ended with a full window whose oldest row is newer than a log
\* accepted earlier, whose sample the buffer no longer holds
C21_Witness ==
    /\ pc = "sleep"
    /\ Len(LiveRows) = windowSize
    /\ OldestTs(LiveRows) >= 2
    /\ \E k \in hist.accepted : k[1] = 1
    /\ \E p \in DOMAIN priceBuf : priceBuf[p] # <<>>

\* C22: whatever its capacity, the tracker never holds more than max_size
\* keys after a call of mark_seen or prune.
C22_TrackerBounded == Cardinality(seen) <= cyc.max_size

\* C22 for the capacities of which a fifth is at least one key
C22_TrackerBoundedFromFive == cyc.max_size >= 5 => Cardinality(seen) <= cyc.max_size

\* C23: the keys a mark_seen removes are the oldest in insertion order, and
\* the key just marked is not among them: it is a duplicate right after.
C23_EvictsOldestKeepsMarked ==
    pc = "tracker_marked" =>
        /\ IsDuplicate(seen, cyc.last[1], cyc.last[2])
        /\ cyc.evicted = Range(Prefix(cyc.order0, Cardinality(cyc.evicted)))

\* C24: after every add_price on a buffer that started empty, the buffer of
\* each pool holds the last min(n, max_size) of the n samples added for the
\* pool, in the order they were added.
C24_BufferKeepsLatest ==
    pc = "buffer_added" =>
        \A p \in Range(Pools) :
            LET n == Len(cyc.added[p])
                kept == Len(priceBuf[p])
            IN /\ kept = IF n < cyc.max_size THEN n ELSE cyc.max_size
               /\ \A i \in 1..kept : priceBuf[p][i] = cyc.added[p][n - kept + i]

\* a pool was given more samples than the buffer holds
C24_Witness ==
    /\ pc = "buffer_added"
    /\ \E p \in Range(Pools) :
          /\ Len(cyc.added[p]) > cyc.max_size + 1
          /\ Len(priceBuf[p]) = cyc.max_size

\* C25: the watermark state never moves backwards: the cycle that completes
\* leaves last_seen_ts at the largest of the old value, the largest timestamp
\* seen in the cycle and now, and last_seen_block at the largest of the old
\* value, the largest block seen and the latest block (the block of a log is
\* numbered by its timestamp here); no other step changes them.
C25_WatermarkStateMonotonic ==
    [][/\ state'.last_seen_ts >= state.last_seen_ts
       /\ state'.last_seen_block >= state.last_seen_block
       /\ (pc = "preview_sync" /\ pc' = "save_open") =>
            /\ state'.last_seen_ts = Max2(state.last_seen_ts, Max2(cyc.max_ts, cyc.now))
            /\ state'.last_seen_block = Max2(state.last_seen_block, Max2(cyc.max_block, cyc.now))
       /\ ~(pc = "preview_sync" /\ pc' = "save_open") =>
            /\ state'.last_seen_ts = state.last_seen_ts
            /\ state'.last_seen_block = state.last_seen_block]_vars

\* a second cycle completed in which no log was seen, after one that saw logs
C25_Witness ==
    /\ pc = "save_open"
    /\ hist.cycles >= 2
    /\ cyc.max_ts = 0
    /\ state.last_seen_ts = cyc.now
    /\ hist.accepted # {}

\* C26: for the 5-parameter swap event a direction is established only when
\* exactly one of (amount0In > 0 and amount1Out > 0) and (amount1In > 0 and
\* amount0Out > 0) holds; with neither and with both the result is null.
C26_DirectionNeedsExactlyOne ==
    (pc = "transform_done" /\ cyc.kind = "swap") =>
        (cyc.direction # "none" <=>
            (cyc.amount0_in > 0 /\ cyc.amount1_out > 0) #
            (cyc.amount1_in > 0 /\ cyc.amount0_out > 0))

\* the deltas are the same fraction
SameDelta(x, y) == x[1] * y[2] = y[1] * x[2]

\* C29: after the cross-pool matching every row whose delta_vs_other_pool is
\* set has a counterpart of the other pool in the batch, in the same block
\* or less than 60 seconds away, whose delta is the negation of its own.
C29_DeltasArePairedOpposites ==
    (pc = "transform_done" /\ cyc.kind = "batch") =>
        /\ \A i \in 1..Len(cyc.rows_a) :
              cyc.delta.a[i] # <<>> =>
                  \E j \in 1..Len(cyc.rows_b) :
                      /\ PoolRowsMatch(cyc.rows_a[i], cyc.rows_b[j])
                      /\ cyc.delta.b[j] # <<>>
                      /\ SameDelta(cyc.delta.b[j], Negated(cyc.delta.a[i]))
        /\ \A j \in 1..Len(cyc.rows_b) :
              cyc.delta.b[j] # <<>> =>
                  \E i \in 1..Len(cyc.rows_a) :
                      /\ PoolRowsMatch(cyc.rows_a[i], cyc.rows_b[j])
                      /\ cyc.delta.a[i] # <<>>
                      /\ SameDelta(cyc.delta.a[i], Negated(cyc.delta.b[j]))

\* the keys of the logs the pool being paginated has on the chain
KeysOfCurrentPool == RowKeys(PoolLogsFrom(Pools[cyc.pool], Len(chain)))

\* C27: when the pagination of a pool fails with a fetch error, the pool
\* contributes nothing to the cycle: the batch that goes on to the append
\* holds no row of the pool, rows of pages fetched before the error
\* included, and no key of the pool marked in this cycle stays in the Dedup
\* Set.
C27_FailedPoolContributesNothing ==
    [][FetchPageError =>
         /\ \A n \in 1..Len(cyc'.batch) : cyc'.batch[n].pool # Pools[cyc.pool]
         /\ (seen' \ cyc.seen0) \cap KeysOfCurrentPool = {}]_vars

\* C28: a normalization error on one item skips that item only: every other
\* item of the pages fetched is turned into a row, and the page loop goes on
\* to the next page the source reports, on the logs path and on the
\* transaction path.
C28_NormalizationErrorSkipsOneItem ==
    /\ cyc.good \subseteq cyc.rows
    /\ (cyc.more /\ (cyc.path = "logs" => cyc.requests < MAX_PAGES_PER_CYCLE)) => ~cyc.left

\* C28 on the logs path alone
C28_LogsPathSkipsOneItem ==
    cyc.path = "logs" =>
        /\ cyc.good \subseteq cyc.rows
        /\ (cyc.more /\ cyc.requests < MAX_PAGES_PER_CYCLE) => ~cyc.left

\* C30: for each pool at most max_pages pages are requested, on the logs
\* path and on the transaction path, also when the source reports a further
\* page after every page.
C30_PagesWithinBudget == cyc.requests <= MAX_PAGES_PER_CYCLE

\* C30 on the logs path alone
C30_LogsPathWithinBudget == cyc.path = "logs" => cyc.requests <= MAX_PAGES_PER_CYCLE

\* C31: when writing or renaming the temp file fails in
\* apply_rolling_window_pruning, update_metadata or
\* update_preview_with_analytics, the exception leaves the function, the
\* temp file of that function is removed, and the live artifact keeps the
\* content it had when the function was entered.  (A temp file that a killed
\* process left behind for another artifact is not this function's to remove.)
C31_FailedRewriteKeepsArtifact ==
    [][(/\ pc \in {"prune_write", "prune_sync", "prune_replace",
                   "meta_tmp", "meta_sync", "preview_sync"}
        /\ pc' = "raised") =>
         /\ pc \in {"prune_write", "prune_sync", "prune_replace"} =>
               datasetTmp' = NoFile
         /\ pc \in {"meta_tmp", "meta_sync"} => docTmp'.metadata = NoDoc
         /\ pc = "preview_sync" => docTmp'.preview = NoDoc
         /\ dataset' = dataset /\ metadata' = metadata /\ preview' = preview
         /\ pc \in {"prune_write", "prune_sync", "prune_replace"} =>
               ParsedRows(dataset'.lines) = pr.before
         /\ metadata'.st # "partial" /\ preview'.st # "partial"]_vars

\* the rewrite of a dataset over its window failed: the temp file is gone
\* and the dataset still holds every row it held
C31_Witness ==
    /\ pc = "raised"
    /\ datasetTmp = NoFile
    /\ pr.dropped # <<>>
    /\ Len(LiveRows) > windowSize

\* the samples of the pool asked for
AskedSamples == priceBuf[cyc.pool_id]

\* the positions of the last 5 samples of the pool asked for
LastFiveIdx ==
    {i \in 1..Len(AskedSamples) : i + 5 > Len(AskedSamples)}

\* m is the median of the last 5 samples: the price that stands at position
\* n div 2 (counted from 0) when the n prices are put in ascending order
IsMedianOfLastFive(m) ==
    /\ \E i \in LastFiveIdx : AskedSamples[i].price = m
    /\ Cardinality({i \in LastFiveIdx : AskedSamples[i].price < m})
          <= Cardinality(LastFiveIdx) \div 2
    /\ Cardinality({i \in LastFiveIdx : AskedSamples[i].price <= m})
          > Cardinality(LastFiveIdx) \div 2

\* C32: get_latest_price returns the price of the pool's most recent sample
\* only if the sample is at most max_age_seconds old and, when the pool has
\* at least 3 samples, its ratio to the median of the last 5 samples is
\* strictly between 0.1 and 10; in every other case, an absent pool
\* included, it returns 0.
C32_LatestPriceFreshAndNearMedian ==
    pc = "latest_done" =>
        LET n == Len(AskedSamples)
            usable ==
                /\ n > 0
                /\ clock - AskedSamples[n].ts <= cyc.max_age_seconds
                /\ n >= 3 =>
                      \A m \in LatestPrices :
                          IsMedianOfLastFive(m) =>
                              /\ 10 * AskedSamples[n].price > m
                              /\ AskedSamples[n].price < 10 * m
        IN cyc.price = IF usable THEN AskedSamples[n].price ELSE 0

\* the latest of six samples, just young enough, was refused: it is ten
\* times the median of the last 5, while the median of all six is the
\* latest price itself
C32_Witness ==
    /\ pc = "latest_done"
    /\ PricesOf(AskedSamples) = <<100, 1, 1, 1, 10, 10>>
    /\ clock - LookbackSeconds = cyc.max_age_seconds
    /\ cyc.price = 0

\* C33: in every published preview the preview_rows are ordered newest
\* first: their timestamps are non-increasing.
C33_PreviewNewestFirst ==
    preview.st = "ok" =>
        \A i, j \in 1..Len(preview.val.preview_rows) :
            i < j => preview.val.preview_rows[i].ts >= preview.val.preview_rows[j].ts

\* C34: in every published preview the number of preview_rows is exactly
\* min(PREVIEW_ROWS, number of rows of the dataset).
C34_PreviewShowsPreviewRows ==
    (pc = "pv_ingest" /\ preview.st = "ok") =>
        Len(preview.val.preview_rows) =
            IF Len(LiveRows) < cyc.preview_rows THEN Len(LiveRows) ELSE cyc.preview_rows

\* C35: when a readable metadata document exists, update_metadata leaves
\* its latest_cid, lighthouse_gateway, lighthouse_updated, encryption and
\* last_lighthouse_upload as they were; it sets rows and last_updated.
C35_MetadataUpdateKeepsLighthouseFields ==
    (pc = "md_upload" /\ cyc.before.st = "ok") =>
        /\ metadata.val.latest_cid = cyc.before.val.latest_cid
        /\ metadata.val.lighthouse_gateway = cyc.before.val.lighthouse_gateway
        /\ metadata.val.lighthouse_updated = cyc.before.val.lighthouse_updated
        /\ metadata.val.encryption = cyc.before.val.encryption
        /\ metadata.val.last_lighthouse_upload = cyc.before.val.last_lighthouse_upload
        /\ metadata.val.last_updated = clock

\* update_metadata ran on a document that an upload of an earlier cycle had
\* given a CID and encryption stats
C35_Witness ==
    /\ pc = "md_upload"
    /\ cyc.before.st = "ok"
    /\ metadata.val.latest_cid # 0
    /\ metadata.val.encryption # 0
    /\ metadata.val.last_lighthouse_upload < clock
    /\ cyc.before.val.last_updated < clock

\* C36: every row a cycle appends to the dataset is newer than the cycle's
\* watermark: its timestamp is strictly greater than the watermark.
C36_AppendedRowsAboveWatermark ==
    pc \in {"fetch", "post", "append"} =>
        \A n \in 1..Len(cyc.batch) : cyc.batch[n].ts > cyc.wm

\* the rows of the pool of row r that the source lists before the page of r
RowsOnEarlierPages(r) ==
    LET all == PoolLogsFrom(r.pool, Len(chain))
        idx == CHOOSE i \in 1..Len(all) : all[i] = r
    IN SubSeq(all, 1, ((idx - 1) \div PageSize) * PageSize)

\* C36 as the code has it: every row a cycle appends is newer than the
\* cycle's watermark or sits on the page of its pool that reached the
\* watermark, which is processed whole before the pagination stops: every
\* row the source lists on the pages before it is newer than the watermark.
C36_AppendedRowsUpToCrossingPage ==
    pc \in {"fetch", "post", "append"} =>
        \A n \in 1..Len(cyc.batch) :
            \/ cyc.batch[n].ts > cyc.wm
            \/ \A m \in 1..Len(RowsOnEarlierPages(cyc.batch[n])) :
                   RowsOnEarlierPages(cyc.batch[n])[m].ts > cyc.wm

\* a batch that goes to the append holds a row at or below the watermark,
\* taken from the second page of its pool
C36_Witness ==
    /\ pc = "append"
    /\ \E n \in 1..Len(cyc.batch) :
          /\ cyc.batch[n].ts <= cyc.wm
          /\ RowsOnEarlierPages(cyc.batch[n]) # <<>>

\* C37: after every cycle each pool's price buffer is ordered by
\* non-decreasing timestamp, so its last entry is the sample with the
\* largest timestamp of the pool.
C37_BufferOrderedByTimestamp ==
    pc = "sleep" =>
        \A p \in DOMAIN priceBuf :
            \A i, j \in 1..Len(priceBuf[p]) :
                i < j => priceBuf[p][i].ts <= priceBuf[p][j].ts

\* C38: cleanup_old_files never issues a delete for a protected file: no
\* file whose CID is permanent, additional, or equal to protected_cid (the
\* newest file's CID when protected_cid is not given) goes to delete_file,
\* whatever the outcome of the deletes.
C38_ProtectedNeverDeleted ==
    pc \in {"cleanup_delete", "cleanup_done"} =>
        \A i \in cyc.issued :
            /\ cyc.all_files[i] \notin cyc.protected_cids
            /\ cyc.protected_cid # 0 => cyc.all_files[i] # cyc.protected_cid
            /\ cyc.protected_cid = 0 => cyc.all_files[i] # cyc.all_files[1]

\* a cleanup ended with a delete that failed and one that succeeded, on a
\* listing whose newest file is not the one protected_cid names
C38_Witness ==
    /\ pc = "cleanup_done"
    /\ cyc.files_deleted > 0
    /\ cyc.files_failed > 0
    /\ cyc.protected_cid # 0
    /\ cyc.protected_cid \notin cyc.protected_cids
    /\ cyc.all_files[1] # cyc.protected_cid
    /\ \E i \in 1..Len(cyc.all_files) : cyc.all_files[i] = cyc.protected_cid
    /\ \E i \in 1..Len(cyc.all_files) : cyc.all_files[i] \in PERMANENT_PROTECTED_CIDS

\* C7: at no point of a cycle, and after a crash at any point, does a
\* published artifact (dataset, metadata, preview) hold a partially written
\* batch or document.
C7_NoPartialArtifact ==
    /\ metadata.st # "partial"
    /\ preview.st # "partial"
    /\ dataset.eol
    /\ ~(pc = "append" /\ cyc.i > 0)

\* the documents a request for path may return at this point: the published
\* one and, while it is being replaced, the one that replaces it
OldOrNew(path) ==
    IF path = "/preview"
    THEN {preview.val} \cup (IF pc = "preview_sync" THEN {cyc.doc} ELSE {})
    ELSE {metadata.val} \cup (IF pc = "meta_sync" THEN {MetadataDoc(pr.total_after, cyc.now)} ELSE {})

\* C8: an HTTP request for preview.json or metadata.json that runs while the
\* file is rewritten gets the complete old or the complete new document,
\* never a partial one (which json.load rejects: status 500).
C8_ReaderSeesCompleteDocument ==
    [][served' # served =>
         /\ served'.status \in {200, 404}
         /\ served'.status = 200 => served'.body \in OldOrNew(served'.path)
         /\ served'.status = 404 => (IF served'.path = "/preview" THEN preview ELSE metadata) = NoDoc]_vars

\* a request was served the published preview while its temp file was being
\* written with a different document
C8_Witness ==
    /\ served.path = "/preview"
    /\ served.status = 200
    /\ served.rewriting
    /\ pc = "preview_sync"
    /\ served.body = preview.val
    /\ cyc.doc # preview.val

CheckpointFiles == <<stateFile, dedupeFile, bufFile, pvFile>>

\* C9: the checkpoint documents are rewritten atomically: once a complete
\* document is persisted, no step (a crash included) leaves the file torn.
C9_CheckpointAtomic ==
    [][\A k \in 1..4 : CheckpointFiles[k].st = "ok" => CheckpointFiles[k]'.st = "ok"]_vars

\* C10: when the latest-block query fails, run_cycle returns the prior state
\* and leaves dataset, metadata, preview, Dedup Set, price buffer and
\* preview-novelty tracker unchanged.
C10_SkippedCycleFrame ==
    [][(pc = "sleep" /\ pc' = "save_open") =>
         UNCHANGED <<state, dataset, metadata, preview, seen, priceBuf, previewHashes>>]_vars

\* a cycle was skipped in a worker that holds data
C10_Witness ==
    /\ pc = "save_open"
    /\ cyc.skipped
    /\ LiveRows # <<>>
    /\ seen # {}
    /\ state.last_seen_ts > 0
    /\ preview.st = "ok"

====
